---- MODULE Spec2Model ----
(***************************************************************************)
(* A model of the Modbus engine of this repository: the MBAP frame codec   *)
(* (modbus_frame.py), the TCP master and the TCP server with its data      *)
(* model (modbus_tcp.py) and the RTU server dispatcher (modbus_rtu.py).    *)
(* Frames are sequences of bytes (0..255); every conversion is computed    *)
(* the way the code computes it.                                           *)
(***************************************************************************)
EXTENDS Integers, Sequences, FiniteSets, TLC

\* ------------------------------------------------------------------------
\* modbus/defines.py (imported by every module; values from the function
\* code and exception code tables of the specification)
\* ------------------------------------------------------------------------
READ_COILS == 1
READ_DISCRETE_INPUTS == 2
READ_HOLDING_REGISTERS == 3
READ_INPUT_REGISTERS == 4
WRITE_SINGLE_COIL == 5
WRITE_SINGLE_REGISTER == 6
WRITE_MULTIPLE_COILS == 15
WRITE_MULTIPLE_REGISTERS == 16

ILLEGAL_FUNCTION == 1
ILLEGAL_DATA_ADDRESS == 2
ILLEGAL_DATA_VALUE == 3
SLAVE_DEVICE_FAILURE == 4

COILS == "COILS"
DISCRETE_INPUTS == "DISCRETE_INPUTS"
HOLDING_REGISTERS == "HOLDING_REGISTERS"
INPUT_REGISTERS == "INPUT_REGISTERS"

\* ------------------------------------------------------------------------
\* Bounds of the model
\* ------------------------------------------------------------------------
\* execute calls made on the master in one behaviour
MaxCalls == 2
\* connections the master opens in one behaviour
MaxConns == 3

\* ------------------------------------------------------------------------
\* Bytes: struct.pack / struct.unpack and Python slicing
\* ------------------------------------------------------------------------
Min(a, b) == IF a < b THEN a ELSE b

Max(a, b) == IF a < b THEN b ELSE a

\* s[a:b] for 0 <= a, 0 <= b (Python, 0-based, clamped to the length)
Slice(s, a, b) == SubSeq(s, a + 1, Min(b, Len(s)))

\* s[a:]
SliceFrom(s, a) == SubSeq(s, a + 1, Len(s))

\* struct.pack('B', v) raises struct.error outside 0..255
FitsB(v) == v \in 0..255

\* struct.pack('>H', v) raises struct.error outside 0..65535
FitsH(v) == v \in 0..65535

\* struct.pack('>H', v)
PackH(v) == <<v \div 256, v % 256>>

\* struct.unpack('>H', s[i:i+2])[0], i 0-based
UnpackH(s, i) == s[i + 1] * 256 + s[i + 2]

\* fc & 0x80
HasBit80(fc) == (fc \div 128) % 2 = 1

\* fc | 0x80
OrBit80(fc) == IF HasBit80(fc) THEN fc ELSE fc + 128

\* (byte >> bit) & 1 as a boolean
BitOf(byte, bit) == (byte \div (2 ^ bit)) % 2 = 1

\* one byte of a bit-packed list of n elements: element i (0-based) is bit
\* i % 8 of byte i // 8; bits beyond the list stay zero
RECURSIVE PackByte(_, _, _, _)
PackByte(bits, n, j, k) ==
    IF k = 8 THEN 0
    ELSE (IF 8 * j + k + 1 <= n /\ bits[8 * j + k + 1] THEN 2 ^ k ELSE 0)
         + PackByte(bits, n, j, k + 1)

\* a variant that fills the bytes from the last one to the first
PackBitsLastByteFirst(bits, byte_count) ==
    LET n == Len(bits)
    IN  [j \in 1..byte_count |-> PackByte(bits, n, byte_count - j, 0)]

\* the bytearray(byte_count) filled by "coil_bytes[i // 8] |= 1 << (i % 8)";
\* an element whose byte index is beyond byte_count raises IndexError, which the
\* callers exclude with BitsFit
PackBits(bits, byte_count) ==
    LET n == Len(bits)
    IN  [j \in 1..byte_count |-> PackByte(bits, n, j - 1, 0)]

BitsFit(bits, byte_count) ==
    \A i \in 1..Len(bits) : bits[i] => (i - 1) \div 8 < byte_count

\* "for byte in bytes: for bit in range(8): append(bool((byte >> bit) & 1))"
UnpackBits(bytes) ==
    [i \in 1..(8 * Len(bytes)) |-> BitOf(bytes[((i - 1) \div 8) + 1], (i - 1) % 8)]

\* ------------------------------------------------------------------------
\* ModbusTCPFrame (modbus_frame.py)
\* ------------------------------------------------------------------------
MBAP_HEADER_LENGTH == 7

\* struct.pack('>HHHB', transaction_id, protocol_id, length, unit_id) + pdu
Mbap(transaction_id, protocol_id, length, unit_id, pdu) ==
    PackH(transaction_id) \o PackH(protocol_id) \o PackH(length) \o <<unit_id>> \o pdu

\* build_request succeeds (no struct.error)
CanBuild(transaction_id, unit_id, function_code, data) ==
    /\ FitsH(transaction_id)
    /\ FitsB(unit_id)
    /\ FitsB(function_code)
    /\ FitsH(2 + Len(data))

\* a variant whose length field counts the PDU without the unit id
build_request_pdu_length(transaction_id, unit_id, function_code, data) ==
    Mbap(transaction_id, 0, 1 + Len(data), unit_id, <<function_code>> \o data)

build_request(transaction_id, unit_id, function_code, data) ==
    Mbap(transaction_id, 0, 1 + (1 + Len(data)), unit_id, <<function_code>> \o data)

NoFrame == [ok |-> FALSE]

parse_frame(frame) ==
    IF Len(frame) < MBAP_HEADER_LENGTH + 1 THEN NoFrame
    ELSE IF UnpackH(frame, 2) # 0 THEN NoFrame
    ELSE [ok |-> TRUE,
          transaction_id |-> UnpackH(frame, 0),
          protocol_id |-> UnpackH(frame, 2),
          length |-> UnpackH(frame, 4),
          unit_id |-> frame[MBAP_HEADER_LENGTH],
          function_code |-> frame[MBAP_HEADER_LENGTH + 1],
          data |-> SliceFrom(frame, MBAP_HEADER_LENGTH + 1)]

\* a variant that answers under the next transaction id
error_response_next_id(transaction_id, unit_id, function_code, exception_code) ==
    build_request((transaction_id + 1) % 65536, unit_id, OrBit80(function_code),
                  <<exception_code>>)

build_error_response(transaction_id, unit_id, function_code, exception_code) ==
    build_request(transaction_id, unit_id, OrBit80(function_code), <<exception_code>>)

\* ------------------------------------------------------------------------
\* ModbusCRC (modbus_frame.py)
\* ------------------------------------------------------------------------
\* a ^ b on non-negative integers
RECURSIVE Xor(_, _)
Xor(a, b) ==
    IF a = 0 THEN b
    ELSE IF b = 0 THEN a
    ELSE (((a % 2) + (b % 2)) % 2) + 2 * Xor(a \div 2, b \div 2)

\* x with the bit of weight w flipped
FlipBit(x, w) == IF (x \div w) % 2 = 1 THEN x - w ELSE x + w

\* x ^ 0xA001: bits 15, 13 and 0 are flipped
XorA001(x) == FlipBit(FlipBit(FlipBit(x, 32768), 8192), 1)

\* one of the 8 shift/XOR rounds
CrcRound(crc) == IF crc % 2 = 1 THEN XorA001(crc \div 2) ELSE crc \div 2

\* "crc ^= byte" and the 8 rounds of "for _ in range(8)"
CrcByte(crc, byte) ==
    CrcRound(CrcRound(CrcRound(CrcRound(
        CrcRound(CrcRound(CrcRound(CrcRound(Xor(crc, byte)))))))))

\* "for byte in data", from the i-th byte on; the test on the running value
\* makes the evaluation proceed byte by byte (it is a 16-bit value throughout)
RECURSIVE CrcFrom(_, _, _)
CrcFrom(crc, data, i) ==
    IF i > Len(data) THEN crc
    ELSE LET next == CrcByte(crc, data[i])
         IN  IF next \in 0..65535 THEN CrcFrom(next, data, i + 1) ELSE next

\* a variant that starts from 0 instead of 0xFFFF
calculate_crc_from_zero(data) == CrcFrom(0, data, 1)

\* crc = 0xFFFF; for byte in data: crc ^= byte; 8 rounds
calculate_crc(data) == CrcFrom(65535, data, 1)

\* a variant that compares the low bytes only
verify_crc_low_byte(data, crc) == calculate_crc(data) % 256 = crc % 256

verify_crc(data, crc) == calculate_crc(data) = crc

\* struct.pack('<H', crc)
PackHLittle(v) == <<v % 256, v \div 256>>

\* ------------------------------------------------------------------------
\* Databank and Slave (modbus_tcp.py).  A slave's blocks dict is the sequence
\* of its blocks in insertion order, each block a record carrying its name.
\* Values handed to set_values are Python integers (a bool is the integer
\* 0 or 1); bit blocks store booleans, register blocks 16-bit integers.
\* ------------------------------------------------------------------------
IsBitType(block_type) == block_type \in {COILS, DISCRETE_INPUTS}

Databank(block_name, block_type, starting_address, size) ==
    [name |-> block_name,
     block_type |-> block_type,
     starting_address |-> starting_address,
     size |-> size,
     data |-> [i \in 1..size |-> IF IsBitType(block_type) THEN FALSE ELSE 0]]

\* a variant that keeps the value as it is
MaskNone(value) == value

\* value & 0xFFFF
Mask16(value) == value % 65536

\* a variant that stores the values only when the whole range lies inside the
\* block
StoredIfWhole(block, address, values, idx) ==
    LET i == idx - (address - block.starting_address)
    IN  IF /\ 0 <= i /\ i < Len(values)
           /\ block.starting_address <= address
           /\ address + Len(values) <= block.starting_address + block.size
        THEN (IF IsBitType(block.block_type) THEN values[i + 1] # 0
              ELSE values[i + 1] % 65536)
        ELSE block.data[idx + 1]

\* the element stored for idx (0-based) by set_values(address, values), or the
\* element already there
StoredAt(block, address, values, idx) ==
    LET i == idx - (address - block.starting_address)
    IN  IF 0 <= i /\ i < Len(values)
        THEN (IF IsBitType(block.block_type) THEN values[i + 1] # 0
              ELSE Mask16(values[i + 1]))
        ELSE block.data[idx + 1]

\* a variant that stores the values from the start of the block, whatever
\* the address
set_values_from_start(block, address, values) ==
    [block EXCEPT !.data =
        [k \in 1..block.size |->
            StoredAt(block, block.starting_address, values, k - 1)]]

Databank_set_values(block, address, values) ==
    [block EXCEPT !.data =
        [k \in 1..block.size |-> StoredAt(block, address, values, k - 1)]]

\* a variant that reads past the end of the block by wrapping around instead
\* of yielding the default
get_values_wrapped(block, address, count) ==
    [n \in 1..count |->
        LET idx == address - block.starting_address + (n - 1)
        IN  IF 0 <= idx /\ idx < block.size THEN block.data[idx + 1]
            ELSE block.data[(idx % block.size) + 1]]

Databank_get_values(block, address, count) ==
    [n \in 1..count |->
        LET idx == address - block.starting_address + (n - 1)
        IN  IF 0 <= idx /\ idx < block.size THEN block.data[idx + 1]
            ELSE IF IsBitType(block.block_type) THEN FALSE ELSE 0]

\* position in the blocks dict of the block called block_name, 0 if absent
BlockIndex(blocks, block_name) ==
    IF \E i \in 1..Len(blocks) : blocks[i].name = block_name
    THEN CHOOSE i \in 1..Len(blocks) : blocks[i].name = block_name
    ELSE 0

\* self.blocks[block_name] = Databank(...): a new key is appended, an existing
\* key keeps its place
Slave_add_block(blocks, block_name, block_type, starting_address, size) ==
    LET i == BlockIndex(blocks, block_name)
        b == Databank(block_name, block_type, starting_address, size)
    IN  IF i = 0 THEN Append(blocks, b) ELSE [blocks EXCEPT ![i] = b]

Slave_set_values(blocks, block_name, address, values) ==
    LET i == BlockIndex(blocks, block_name)
    IN  IF i = 0 THEN blocks
        ELSE [blocks EXCEPT ![i] = Databank_set_values(blocks[i], address, values)]

Slave_get_values(blocks, block_name, address, count) ==
    LET i == BlockIndex(blocks, block_name)
    IN  IF i = 0 THEN <<>> ELSE Databank_get_values(blocks[i], address, count)

\* a variant that looks at the type only
CoversAnyAddress(block, block_type, address) == block.block_type = block_type

Covers(block, block_type, address) ==
    /\ block.block_type = block_type
    /\ block.starting_address <= address
    /\ address < block.starting_address + block.size

\* index of the first block of the type covering address, 0 for None
find_block(blocks, block_type, address) ==
    IF \E i \in 1..Len(blocks) : Covers(blocks[i], block_type, address)
    THEN CHOOSE i \in 1..Len(blocks) :
            /\ Covers(blocks[i], block_type, address)
            /\ \A j \in 1..(i - 1) : ~Covers(blocks[j], block_type, address)
    ELSE 0

get_values_by_type(blocks, block_type, address, count) ==
    LET i == find_block(blocks, block_type, address)
    IN  IF i # 0 THEN Databank_get_values(blocks[i], address, count)
        ELSE [n \in 1..count |-> IF IsBitType(block_type) THEN FALSE ELSE 0]

\* a variant that writes to every block covering the address, whatever its
\* type
set_values_any_type(blocks, block_type, address, values) ==
    [i \in 1..Len(blocks) |->
        IF blocks[i].starting_address <= address
            /\ address < blocks[i].starting_address + blocks[i].size
        THEN Databank_set_values(blocks[i], address, values)
        ELSE blocks[i]]

set_values_by_type(blocks, block_type, address, values) ==
    LET i == find_block(blocks, block_type, address)
    IN  IF i # 0
        THEN [blocks EXCEPT ![i] = Databank_set_values(blocks[i], address, values)]
        ELSE blocks

\* ------------------------------------------------------------------------
\* Response builders of ModbusTCPFrame (modbus_frame.py)
\* ------------------------------------------------------------------------
\* "for value in values: data += struct.pack('>H', value)"
PackRegisters(values) ==
    [k \in 1..(2 * Len(values)) |->
        IF k % 2 = 1 THEN values[(k + 1) \div 2] \div 256 ELSE values[k \div 2] % 256]

\* the values as the integers 1 / 0
BoolsToInts(bits) == [i \in 1..Len(bits) |-> IF bits[i] THEN 1 ELSE 0]

build_read_coils_response(transaction_id, unit_id, coil_status) ==
    LET byte_count == (Len(coil_status) + 7) \div 8
    IN  build_request(transaction_id, unit_id, 1,
                      <<byte_count>> \o PackBits(coil_status, byte_count))

build_read_holding_registers_response(transaction_id, unit_id, register_values) ==
    build_request(transaction_id, unit_id, 3,
                  <<Len(register_values) * 2>> \o PackRegisters(register_values))

build_write_single_coil_response(transaction_id, unit_id, address, value) ==
    build_request(transaction_id, unit_id, 5,
                  PackH(address) \o PackH(IF value THEN 65280 ELSE 0))

\* ------------------------------------------------------------------------
\* TcpServer: the function handlers (modbus_tcp.py).  A handler yields the
\* response frame and the slave's blocks afterwards, or raises (struct.error),
\* which _process_request catches.
\* ------------------------------------------------------------------------
Ret(resp, blocks) == [raised |-> FALSE, resp |-> resp, blocks |-> blocks]

Raise(blocks) == [raised |-> TRUE, resp |-> <<>>, blocks |-> blocks]

ErrorOf(frame, exception_code) ==
    build_error_response(frame.transaction_id, frame.unit_id, frame.function_code,
                         exception_code)

handle_read_coils(frame, blocks) ==
    IF Len(frame.data) < 4 THEN Ret(ErrorOf(frame, ILLEGAL_DATA_VALUE), blocks)
    ELSE LET start_addr == UnpackH(frame.data, 0)
             quantity == UnpackH(frame.data, 2)
         IN  IF ~FitsB((quantity + 7) \div 8) THEN Raise(blocks)
             ELSE Ret(build_read_coils_response(frame.transaction_id, frame.unit_id,
                          get_values_by_type(blocks, COILS, start_addr, quantity)),
                      blocks)

handle_read_discrete_inputs(frame, blocks) ==
    IF Len(frame.data) < 4 THEN Ret(ErrorOf(frame, ILLEGAL_DATA_VALUE), blocks)
    ELSE LET start_addr == UnpackH(frame.data, 0)
             quantity == UnpackH(frame.data, 2)
             byte_count == (quantity + 7) \div 8
         IN  IF ~FitsB(byte_count) THEN Raise(blocks)
             ELSE Ret(build_request(frame.transaction_id, frame.unit_id,
                          frame.function_code,
                          <<byte_count>> \o PackBits(
                              get_values_by_type(blocks, DISCRETE_INPUTS, start_addr,
                                                 quantity), byte_count)),
                      blocks)

handle_read_holding_registers(frame, blocks) ==
    IF Len(frame.data) < 4 THEN Ret(ErrorOf(frame, ILLEGAL_DATA_VALUE), blocks)
    ELSE LET start_addr == UnpackH(frame.data, 0)
             quantity == UnpackH(frame.data, 2)
         IN  IF ~FitsB(quantity * 2) THEN Raise(blocks)
             ELSE Ret(build_read_holding_registers_response(
                          frame.transaction_id, frame.unit_id,
                          get_values_by_type(blocks, HOLDING_REGISTERS, start_addr,
                                             quantity)),
                      blocks)

handle_read_input_registers(frame, blocks) ==
    IF Len(frame.data) < 4 THEN Ret(ErrorOf(frame, ILLEGAL_DATA_VALUE), blocks)
    ELSE LET start_addr == UnpackH(frame.data, 0)
             quantity == UnpackH(frame.data, 2)
         IN  IF ~FitsB(quantity * 2) THEN Raise(blocks)
             ELSE Ret(build_request(frame.transaction_id, frame.unit_id,
                          frame.function_code,
                          <<quantity * 2>> \o PackRegisters(
                              get_values_by_type(blocks, INPUT_REGISTERS, start_addr,
                                                 quantity))),
                      blocks)

\* a variant that stores the coil before it looks at the value field
write_single_coil_store_first(frame, blocks) ==
    IF Len(frame.data) < 4 THEN Ret(ErrorOf(frame, ILLEGAL_DATA_VALUE), blocks)
    ELSE LET address == UnpackH(frame.data, 0)
             coil_value == UnpackH(frame.data, 2)
             stored == set_values_by_type(blocks, COILS, address,
                                          <<IF coil_value # 0 THEN 1 ELSE 0>>)
         IN  IF coil_value \notin {0, 65280}
             THEN Ret(ErrorOf(frame, ILLEGAL_DATA_VALUE), stored)
             ELSE Ret(build_write_single_coil_response(frame.transaction_id,
                          frame.unit_id, address, coil_value = 65280),
                      stored)

handle_write_single_coil(frame, blocks) ==
    IF Len(frame.data) < 4 THEN Ret(ErrorOf(frame, ILLEGAL_DATA_VALUE), blocks)
    ELSE LET address == UnpackH(frame.data, 0)
             coil_value == UnpackH(frame.data, 2)
             value == (coil_value = 65280)
         IN  IF coil_value \notin {0, 65280}
             THEN Ret(ErrorOf(frame, ILLEGAL_DATA_VALUE), blocks)
             ELSE Ret(build_write_single_coil_response(frame.transaction_id,
                          frame.unit_id, address, value),
                      set_values_by_type(blocks, COILS, address,
                                         <<IF value THEN 1 ELSE 0>>))

handle_write_single_register(frame, blocks) ==
    IF Len(frame.data) < 4 THEN Ret(ErrorOf(frame, ILLEGAL_DATA_VALUE), blocks)
    ELSE LET address == UnpackH(frame.data, 0)
             value == UnpackH(frame.data, 2)
         IN  Ret(build_request(frame.transaction_id, frame.unit_id,
                     frame.function_code, PackH(address) \o PackH(value)),
                 set_values_by_type(blocks, HOLDING_REGISTERS, address, <<value>>))

\* "for byte in coil_bytes: for bit in range(8): if len(values) < quantity: append"
CoilValues(coil_bytes, quantity) ==
    SubSeq(BoolsToInts(UnpackBits(coil_bytes)), 1, Min(quantity, 8 * Len(coil_bytes)))

handle_write_multiple_coils(frame, blocks) ==
    IF Len(frame.data) < 5 THEN Ret(ErrorOf(frame, ILLEGAL_DATA_VALUE), blocks)
    ELSE LET start_addr == UnpackH(frame.data, 0)
             quantity == UnpackH(frame.data, 2)
             byte_count == frame.data[5]
             coil_bytes == Slice(frame.data, 5, 5 + byte_count)
         IN  Ret(build_request(frame.transaction_id, frame.unit_id,
                     frame.function_code, PackH(start_addr) \o PackH(quantity)),
                 set_values_by_type(blocks, COILS, start_addr,
                                    CoilValues(coil_bytes, quantity)))

\* "for i in range(0, byte_count, 2): struct.unpack('>H', register_data[i:i+2])"
\* raises struct.error when a slice is shorter than 2 bytes
RegistersUnpack(register_data, byte_count) ==
    \A n \in 1..((byte_count + 1) \div 2) : 2 * n <= Len(register_data)

RegisterValues(register_data, byte_count) ==
    [n \in 1..((byte_count + 1) \div 2) |-> UnpackH(register_data, 2 * (n - 1))]

handle_write_multiple_registers(frame, blocks) ==
    IF Len(frame.data) < 5 THEN Ret(ErrorOf(frame, ILLEGAL_DATA_VALUE), blocks)
    ELSE LET start_addr == UnpackH(frame.data, 0)
             quantity == UnpackH(frame.data, 2)
             byte_count == frame.data[5]
             register_data == Slice(frame.data, 5, 5 + byte_count)
         IN  IF ~RegistersUnpack(register_data, byte_count) THEN Raise(blocks)
             ELSE Ret(build_request(frame.transaction_id, frame.unit_id,
                          frame.function_code, PackH(start_addr) \o PackH(quantity)),
                      set_values_by_type(blocks, HOLDING_REGISTERS, start_addr,
                                         RegisterValues(register_data, byte_count)))

\* ------------------------------------------------------------------------
\* TcpServer._process_request: the response (none: no response) and the
\* slaves afterwards.  sl maps each registered slave id to its blocks.
\* ------------------------------------------------------------------------
\* a variant that answers with an empty frame
empty_response(sl) == [none |-> FALSE, resp |-> <<>>, slaves |-> sl]

NoResponse(sl) == [none |-> TRUE, resp |-> <<>>, slaves |-> sl]

Response(resp, sl) == [none |-> FALSE, resp |-> resp, slaves |-> sl]

\* a variant that answers an unknown unit id as an unknown function code
UnknownSlaveAsFunction(frame) == ErrorOf(frame, ILLEGAL_FUNCTION)

\* the reply to a frame whose unit id is no registered slave
UnknownSlaveResponse(frame) == ErrorOf(frame, SLAVE_DEVICE_FAILURE)

\* the else branch of the dispatch on the function code
UnknownFunctionResponse(frame) == ErrorOf(frame, ILLEGAL_FUNCTION)

Dispatch(frame, blocks) ==
    LET fc == frame.function_code
    IN  IF fc = READ_COILS THEN handle_read_coils(frame, blocks)
        ELSE IF fc = READ_DISCRETE_INPUTS THEN handle_read_discrete_inputs(frame, blocks)
        ELSE IF fc = READ_HOLDING_REGISTERS
            THEN handle_read_holding_registers(frame, blocks)
        ELSE IF fc = READ_INPUT_REGISTERS THEN handle_read_input_registers(frame, blocks)
        ELSE IF fc = WRITE_SINGLE_COIL THEN handle_write_single_coil(frame, blocks)
        ELSE IF fc = WRITE_SINGLE_REGISTER
            THEN handle_write_single_register(frame, blocks)
        ELSE IF fc = WRITE_MULTIPLE_COILS THEN handle_write_multiple_coils(frame, blocks)
        ELSE IF fc = WRITE_MULTIPLE_REGISTERS
            THEN handle_write_multiple_registers(frame, blocks)
        ELSE Ret(UnknownFunctionResponse(frame), blocks)

\* a variant that gives no response when a function handler raises
process_request_silent_fault(request, sl) ==
    LET frame == parse_frame(request)
    IN  IF ~frame.ok THEN NoResponse(sl)
        ELSE IF frame.unit_id \notin DOMAIN sl
        THEN Response(UnknownSlaveResponse(frame), sl)
        ELSE LET r == Dispatch(frame, sl[frame.unit_id])
             IN  IF r.raised
                 THEN NoResponse(sl)
                 ELSE Response(r.resp, [sl EXCEPT ![frame.unit_id] = r.blocks])

process_request(request, sl) ==
    LET frame == parse_frame(request)
    IN  IF ~frame.ok THEN NoResponse(sl)
        ELSE IF frame.unit_id \notin DOMAIN sl
        THEN Response(UnknownSlaveResponse(frame), sl)
        ELSE LET r == Dispatch(frame, sl[frame.unit_id])
             IN  IF r.raised
                 THEN Response(ErrorOf(frame, SLAVE_DEVICE_FAILURE), sl)
                 ELSE Response(r.resp, [sl EXCEPT ![frame.unit_id] = r.blocks])

\* ------------------------------------------------------------------------
\* RtuServer._process_request (modbus_rtu.py): the response frame (none: no
\* reply is written) and the slaves afterwards.
\* ------------------------------------------------------------------------
\* frame + struct.pack('<H', calculate_crc(frame))
WithCrc(frame) == frame \o PackHLittle(calculate_crc(frame))

\* the body of the try block: response_data (none: it stays None), the function
\* code of the reply, the blocks afterwards, or a raised exception
RtuData(data, function_code, blocks) ==
    [raised |-> FALSE, none |-> FALSE, data |-> data,
     function_code |-> function_code, blocks |-> blocks]

RtuNone(function_code, blocks) ==
    [raised |-> FALSE, none |-> TRUE, data |-> <<>>,
     function_code |-> function_code, blocks |-> blocks]

RtuRaise(function_code, blocks) ==
    [raised |-> TRUE, none |-> TRUE, data |-> <<>>,
     function_code |-> function_code, blocks |-> blocks]

RtuReadBits(block_type, fc, data, blocks) ==
    IF Len(data) < 4 THEN RtuNone(fc, blocks)
    ELSE LET start_addr == UnpackH(data, 0)
             quantity == UnpackH(data, 2)
             byte_count == (quantity + 7) \div 8
         IN  IF ~FitsB(byte_count) THEN RtuRaise(fc, blocks)
             ELSE RtuData(<<byte_count>> \o PackBits(
                              get_values_by_type(blocks, block_type, start_addr,
                                                 quantity), byte_count),
                          fc, blocks)

RtuReadRegisters(block_type, fc, data, blocks) ==
    IF Len(data) < 4 THEN RtuNone(fc, blocks)
    ELSE LET start_addr == UnpackH(data, 0)
             quantity == UnpackH(data, 2)
         IN  IF ~FitsB(quantity * 2) THEN RtuRaise(fc, blocks)
             ELSE RtuData(<<quantity * 2>> \o PackRegisters(
                              get_values_by_type(blocks, block_type, start_addr,
                                                 quantity)),
                          fc, blocks)

RtuWriteSingleCoil(fc, data, blocks) ==
    IF Len(data) < 4 THEN RtuNone(fc, blocks)
    ELSE LET address == UnpackH(data, 0)
             coil_value == UnpackH(data, 2)
         IN  IF coil_value \notin {0, 65280} THEN RtuNone(fc, blocks)
             ELSE RtuData(Slice(data, 0, 4), fc,
                          set_values_by_type(blocks, COILS, address,
                              <<IF coil_value = 65280 THEN 1 ELSE 0>>))

RtuWriteSingleRegister(fc, data, blocks) ==
    IF Len(data) < 4 THEN RtuNone(fc, blocks)
    ELSE RtuData(Slice(data, 0, 4), fc,
                 set_values_by_type(blocks, HOLDING_REGISTERS, UnpackH(data, 0),
                                    <<UnpackH(data, 2)>>))

RtuWriteMultipleCoils(fc, data, blocks) ==
    IF Len(data) < 5 THEN RtuNone(fc, blocks)
    ELSE LET start_addr == UnpackH(data, 0)
             quantity == UnpackH(data, 2)
             byte_count == data[5]
         IN  RtuData(PackH(start_addr) \o PackH(quantity), fc,
                     set_values_by_type(blocks, COILS, start_addr,
                         CoilValues(Slice(data, 5, 5 + byte_count), quantity)))

RtuWriteMultipleRegisters(fc, data, blocks) ==
    IF Len(data) < 5 THEN RtuNone(fc, blocks)
    ELSE LET start_addr == UnpackH(data, 0)
             quantity == UnpackH(data, 2)
             byte_count == data[5]
             register_data == Slice(data, 5, 5 + byte_count)
         IN  IF ~RegistersUnpack(register_data, byte_count) THEN RtuRaise(fc, blocks)
             ELSE RtuData(PackH(start_addr) \o PackH(quantity), fc,
                          set_values_by_type(blocks, HOLDING_REGISTERS, start_addr,
                              RegisterValues(register_data, byte_count)))

\* the else branch: response_data = ILLEGAL_FUNCTION, function_code |= 0x80
RtuUnknownFunction(fc, blocks) == RtuData(<<ILLEGAL_FUNCTION>>, OrBit80(fc), blocks)

RtuDispatch(fc, data, blocks) ==
    IF fc = READ_COILS THEN RtuReadBits(COILS, fc, data, blocks)
    ELSE IF fc = READ_DISCRETE_INPUTS THEN RtuReadBits(DISCRETE_INPUTS, fc, data, blocks)
    ELSE IF fc = READ_HOLDING_REGISTERS
        THEN RtuReadRegisters(HOLDING_REGISTERS, fc, data, blocks)
    ELSE IF fc = READ_INPUT_REGISTERS
        THEN RtuReadRegisters(INPUT_REGISTERS, fc, data, blocks)
    ELSE IF fc = WRITE_SINGLE_COIL THEN RtuWriteSingleCoil(fc, data, blocks)
    ELSE IF fc = WRITE_SINGLE_REGISTER THEN RtuWriteSingleRegister(fc, data, blocks)
    ELSE IF fc = WRITE_MULTIPLE_COILS THEN RtuWriteMultipleCoils(fc, data, blocks)
    ELSE IF fc = WRITE_MULTIPLE_REGISTERS THEN RtuWriteMultipleRegisters(fc, data, blocks)
    ELSE RtuUnknownFunction(fc, blocks)

\* the shortest frame the RTU server looks at
RtuMinFrame == 5

rtu_process_request(request, sl) ==
    IF Len(request) < RtuMinFrame THEN NoResponse(sl)
    ELSE LET slave_addr == request[1]
             function_code == request[2]
             data == SubSeq(request, 3, Len(request) - 2)
             crc_received == request[Len(request) - 1] + 256 * request[Len(request)]
         IN  IF crc_received # calculate_crc(SubSeq(request, 1, Len(request) - 2))
             THEN NoResponse(sl)
             ELSE IF slave_addr \notin DOMAIN sl THEN NoResponse(sl)
             ELSE LET r == RtuDispatch(function_code, data, sl[slave_addr])
                  IN  IF r.raised
                      THEN Response(WithCrc(<<slave_addr, OrBit80(function_code),
                                              SLAVE_DEVICE_FAILURE>>), sl)
                      ELSE IF r.none
                      THEN NoResponse([sl EXCEPT ![slave_addr] = r.blocks])
                      ELSE Response(WithCrc(<<slave_addr, r.function_code>> \o r.data),
                                    [sl EXCEPT ![slave_addr] = r.blocks])

\* ------------------------------------------------------------------------
\* TcpMaster.execute (modbus_tcp.py): building the request and decoding the
\* response.  A call is the record of execute's arguments; output_value is
\* the list of values (a single value is a list of one).
\* ------------------------------------------------------------------------
NoResult == [kind |-> "none", values |-> <<>>, code |-> -1, frame |-> <<>>]

\* execute raised: kind is the reason, code the Modbus exception code if any
Failed(kind, code, frame) ==
    [kind |-> kind, values |-> <<>>, code |-> code, frame |-> frame]

\* execute returned values
Returned(values, frame) ==
    [kind |-> "ok", values |-> values, code |-> -1, frame |-> frame]

Built(data) == [kind |-> "ok", data |-> data]

NotBuilt(kind) == [kind |-> kind, data |-> <<>>]

\* the data part of the request of each branch of execute; "pack" is a
\* struct.error, "unsupported" the raise after the last elif
RequestData(call) ==
    LET fc == call.function_code
        addr == call.starting_address
        qty == call.quantity_of_x
        out == call.output_value
    IN  IF fc \in {READ_COILS, READ_DISCRETE_INPUTS, READ_HOLDING_REGISTERS,
                   READ_INPUT_REGISTERS}
        THEN (IF FitsH(addr) /\ FitsH(qty) THEN Built(PackH(addr) \o PackH(qty))
              ELSE NotBuilt("pack"))
        ELSE IF fc = WRITE_SINGLE_COIL
        THEN (IF FitsH(addr)
              THEN Built(PackH(addr) \o PackH(IF out[1] # 0 THEN 65280 ELSE 0))
              ELSE NotBuilt("pack"))
        ELSE IF fc = WRITE_SINGLE_REGISTER
        THEN (IF FitsH(addr) THEN Built(PackH(addr) \o PackH(Mask16(out[1])))
              ELSE NotBuilt("pack"))
        ELSE IF fc = WRITE_MULTIPLE_COILS
        THEN (LET byte_count == (Len(out) + 7) \div 8
              IN  IF FitsH(addr) /\ FitsH(Len(out)) /\ FitsB(byte_count)
                  THEN Built(PackH(addr) \o PackH(Len(out)) \o <<byte_count>>
                             \o PackBits([i \in 1..Len(out) |-> out[i] # 0], byte_count))
                  ELSE NotBuilt("pack"))
        ELSE IF fc = WRITE_MULTIPLE_REGISTERS
        THEN (IF FitsH(addr) /\ FitsH(Len(out)) /\ FitsB(Len(out) * 2)
              THEN Built(PackH(addr) \o PackH(Len(out)) \o <<Len(out) * 2>>
                         \o PackRegisters([i \in 1..Len(out) |-> Mask16(out[i])]))
              ELSE NotBuilt("pack"))
        ELSE NotBuilt("unsupported")

\* the request frame of the call under transaction id tid
BuildRequest(call, tid) ==
    LET d == RequestData(call)
    IN  IF d.kind # "ok" THEN d
        ELSE IF ~CanBuild(tid, call.slave, call.function_code, d.data)
        THEN NotBuilt("pack")
        ELSE Built(build_request(tid, call.slave, call.function_code, d.data))

\* parse_read_coils_response: None when the function code is not 0x01 or the
\* data is empty
parse_read_coils_response(frame) ==
    IF frame.function_code # 1 \/ Len(frame.data) < 1 THEN [ok |-> FALSE, values |-> <<>>]
    ELSE [ok |-> TRUE,
          values |-> UnpackBits(Slice(frame.data, 1, 1 + frame.data[1]))]

\* parse_read_holding_registers_response: None as above; "raised" is the
\* struct.error of unpacking a slice shorter than 2 bytes
parse_read_holding_registers_response(frame) ==
    IF frame.function_code # 3 \/ Len(frame.data) < 1
    THEN [ok |-> FALSE, raised |-> FALSE, values |-> <<>>]
    ELSE LET byte_count == frame.data[1]
             register_data == Slice(frame.data, 1, 1 + byte_count)
         IN  IF ~RegistersUnpack(register_data, byte_count)
             THEN [ok |-> FALSE, raised |-> TRUE, values |-> <<>>]
             ELSE [ok |-> TRUE, raised |-> FALSE,
                   values |-> RegisterValues(register_data, byte_count)]

\* a variant whose error carries no exception code
ExceptionWithoutCode(frame, response) == Failed("exception", -1, response)

\* the error raised for an exception response: it carries frame.data[0], or
\* no code ("unknown error") when the data is empty
ExceptionError(frame, response) ==
    Failed("exception", IF Len(frame.data) > 0 THEN frame.data[1] ELSE -1, response)

\* the (address, value) or (address, quantity) echo of a write, or the
\* fallback pair when the response data is shorter than 4 bytes
EchoOf(frame, address, fallback) ==
    IF Len(frame.data) >= 4 THEN <<UnpackH(frame.data, 0), UnpackH(frame.data, 2)>>
    ELSE <<address, fallback>>

\* what execute does with the frame returned by _send_receive
Decode(call, response) ==
    LET frame == parse_frame(response)
        fc == call.function_code
        qty == call.quantity_of_x
        out == call.output_value
    IN  IF ~frame.ok THEN Failed("protocol", -1, response)
        ELSE IF HasBit80(frame.function_code) THEN ExceptionError(frame, response)
        ELSE IF fc = READ_COILS
        THEN (LET coils == parse_read_coils_response(frame)
              IN  IF ~coils.ok THEN Failed("protocol", -1, response)
                  ELSE Returned(Slice(coils.values, 0, qty), response))
        ELSE IF fc = READ_HOLDING_REGISTERS
        THEN (LET registers == parse_read_holding_registers_response(frame)
              IN  IF ~registers.ok THEN Failed("protocol", -1, response)
                  ELSE Returned(Slice(registers.values, 0, qty), response))
        ELSE IF fc = READ_INPUT_REGISTERS
        THEN (IF Len(frame.data) < 1 THEN Failed("protocol", -1, response)
              ELSE LET register_data == Slice(frame.data, 1, 1 + frame.data[1])
                   IN  Returned(Slice([n \in 1..(Len(register_data) \div 2) |->
                                          UnpackH(register_data, 2 * (n - 1))], 0, qty),
                                response))
        ELSE IF fc = READ_DISCRETE_INPUTS
        THEN (IF Len(frame.data) < 1 THEN Failed("protocol", -1, response)
              ELSE Returned(Slice(UnpackBits(Slice(frame.data, 1, 1 + frame.data[1])),
                                  0, qty), response))
        ELSE IF fc = WRITE_SINGLE_COIL
        THEN Returned(EchoOf(frame, call.starting_address,
                             IF out[1] # 0 THEN 65280 ELSE 0), response)
        ELSE IF fc = WRITE_SINGLE_REGISTER
        THEN Returned(EchoOf(frame, call.starting_address, Mask16(out[1])), response)
        ELSE Returned(EchoOf(frame, call.starting_address, Len(out)), response)

\* ------------------------------------------------------------------------
\* State
\* ------------------------------------------------------------------------
VARIABLES
    transaction_id,  \* TcpMaster._transaction_id
    sock,            \* TcpMaster._sock: 0 for None, else the connection's number
    is_opened,       \* TcpMaster._is_opened
    lock,            \* TcpMaster._lock: 0 when free, else the thread holding it
    thr,             \* per calling thread: where it is in execute, its locals, and
                     \* the sends of the call so far (connection, transaction id)
    conn,            \* the TCP connections opened so far, both directions
    slaves,          \* the server's _slaves: slave id -> blocks
    calls,           \* number of execute calls started
    tids,            \* the ids returned by _get_transaction_id, in call order
    served,          \* the request a server taken alone dispatched last, and what
                     \* came back
    api,             \* the calls made on a Slave or an RtuServer directly: how
                     \* many, the last one with its result, and the memory the
                     \* calls so far should have left in each block
    rtu,             \* the RtuMaster and its serial port: where execute is, its
                     \* locals, the port's input buffer, the time spent receiving
    ops,             \* per TCP client handler thread: the request it is handling,
                     \* where it is in Databank.get_values / set_values, its locals
    calc,            \* a function of the codecs applied to arguments taken alone:
                     \* its name, the arguments, the value returned
    reader,          \* a receive loop taken alone: the bytes still to arrive on
                     \* its socket, its locals, the frames it has extracted
    srv              \* the TcpServer's own threads: _is_running, the listening
                     \* socket, the accept loops and the client handlers

vars ==
    <<transaction_id, sock, is_opened, lock, thr, conn, slaves, calls, tids, served,
      api, rtu, ops, calc, reader, srv>>

\* the variables the TCP master, its connections and the servers taken alone
\* never touch
otherVars == <<api, rtu, ops, calc, reader, srv>>

\* the variables only the handler threads and the codec functions taken
\* alone touch
restVars == <<ops, calc, reader, srv>>

\* the variables of the receive loop and of the server's threads
lastVars == <<reader, srv>>

masterVars == <<transaction_id, sock, is_opened, lock, thr, conn, calls, tids>>

\* threads that may call execute on the one master
Threads == {1, 2}

\* a variant with one attempt more
retry_count_more == 3 + 1

\* retry_count, the default of _send_receive
retry_count == 3

\* a variant that does not wrap
NextTidNoWrap(id) == id + 1

\* _get_transaction_id: the next id after id
NextTid(id) == (id + 1) % 65536

NoCall ==
    [slave |-> 0, function_code |-> 0, starting_address |-> 0, quantity_of_x |-> 0,
     output_value |-> <<>>]

IdleThread ==
    [pc |-> "idle", call |-> NoCall, loaded |-> 0, tid |-> 0, request |-> <<>>,
     attempt |-> 0, header |-> <<>>, result |-> NoResult, sent |-> <<>>,
     cause |-> "none"]

\* a connection: the bytes on their way to the master (inb) and to the peer
\* (out), whether the master's socket is open and whether the peer closed
NewConn == [inb |-> <<>>, out |-> <<>>, masterOpen |-> TRUE, peerClosed |-> FALSE]

\* the execute calls the callers make
Call(slave, fc, addr, qty, out) ==
    [slave |-> slave, function_code |-> fc, starting_address |-> addr,
     quantity_of_x |-> qty, output_value |-> out]

Calls ==
    {Call(1, READ_COILS, 0, 10, <<>>),
     Call(1, READ_DISCRETE_INPUTS, 1, 3, <<>>),
     Call(1, READ_HOLDING_REGISTERS, 2, 2, <<>>),
     Call(2, READ_INPUT_REGISTERS, 0, 2, <<>>),
     Call(1, WRITE_SINGLE_COIL, 1, 0, <<1>>),
     Call(1, WRITE_MULTIPLE_REGISTERS, 2, 0, <<5, 70000>>),
     Call(1, READ_HOLDING_REGISTERS, 0, 65536, <<>>),
     Call(1, 7, 0, 0, <<>>)}

\* the data model the server starts with
InitSlaves ==
    1 :> <<Databank_set_values(Databank("c", COILS, 0, 4), 0, <<1, 0, 1, 1>>),
           Databank_set_values(Databank("d", DISCRETE_INPUTS, 1, 3), 1, <<0, 1, 1>>),
           Databank_set_values(Databank("h", HOLDING_REGISTERS, 2, 3), 2, <<11, 22, 33>>),
           Databank_set_values(Databank("i", INPUT_REGISTERS, 0, 2), 0, <<7, 65535>>)>>

NoServed ==
    [transport |-> "none", request |-> <<>>, none |-> TRUE, resp |-> <<>>,
     before |-> InitSlaves]

\* no call has been made on a slave directly
NoApi ==
    [n |-> 0, op |-> "none", name |-> "", address |-> 0, values |-> <<>>,
     result |-> <<>>, expect |-> <<>>]

\* the RTU master before its first execute; its port is open and nothing is
\* waiting in the input buffer
RtuIdle ==
    [pc |-> "idle", call |-> NoCall, request |-> <<>>, response |-> <<>>,
     in_waiting |-> <<>>, elapsed |-> 0, calls |-> 0, result |-> NoResult]

\* no handler thread is running
NoOps == <<>>

\* no codec function has been applied
NoCalc == [f |-> "none", args |-> <<>>, done |-> FALSE, value |-> <<>>]

\* no receive loop has been entered
NoReader ==
    [who |-> "none", whole |-> <<>>, stream |-> <<>>, pc |-> "none", header |-> <<>>,
     data |-> <<>>, remaining |-> 0, frames |-> <<>>, recvs |-> 0]

\* TcpServer.__init__: not running, no listening socket, no thread
NoServer ==
    [is_running |-> FALSE, sock |-> 0, sockets |-> 0, closed |-> {}, loops |-> <<>>,
     handlers |-> <<>>, starts |-> 0, stopped |-> FALSE, stopping |-> FALSE]

InitOther ==
    /\ api = NoApi
    /\ rtu = RtuIdle
    /\ ops = NoOps
    /\ calc = NoCalc
    /\ reader = NoReader
    /\ srv = NoServer

\* a master that has made any number of calls and holds no connection
TidStarts == {0, 65534}

InitMaster ==
    /\ transaction_id \in TidStarts
    /\ sock = 0
    /\ is_opened = FALSE
    /\ lock = 0
    /\ thr = [t \in Threads |-> IdleThread]
    /\ conn = <<>>
    /\ calls = 0
    /\ tids = <<>>

Init ==
    /\ InitMaster
    /\ InitOther
    /\ slaves = InitSlaves
    /\ served = NoServed

\* ------------------------------------------------------------------------
\* TcpMaster.execute, step by step, for the calling thread t
\* ------------------------------------------------------------------------
\* execute is entered with one of the calls of cs
Enter(t, cs) ==
    /\ thr[t].pc = "idle"
    /\ calls < MaxCalls
    /\ \E c \in cs :
        thr' = [thr EXCEPT ![t] = [IdleThread EXCEPT !.pc = "get_tid", !.call = c]]
    /\ calls' = calls + 1
    /\ UNCHANGED <<transaction_id, sock, is_opened, lock, conn, slaves, tids, served,
                   otherVars>>

\* _get_transaction_id: the read of self._transaction_id
LoadTid(t) ==
    /\ thr[t].pc = "get_tid"
    /\ thr' = [thr EXCEPT ![t].pc = "store_tid", ![t].loaded = transaction_id]
    /\ UNCHANGED <<transaction_id, sock, is_opened, lock, conn, slaves, calls, tids,
                   served, otherVars>>

\* _get_transaction_id: the assignment to self._transaction_id
StoreTid(t) ==
    /\ thr[t].pc = "store_tid"
    /\ transaction_id' = NextTid(thr[t].loaded)
    /\ thr' = [thr EXCEPT ![t].pc = "return_tid"]
    /\ UNCHANGED <<sock, is_opened, lock, conn, slaves, calls, tids, served, otherVars>>

\* _get_transaction_id returns self._transaction_id; execute builds the request
\* of its branch, or raises
ReturnTid(t) ==
    /\ thr[t].pc = "return_tid"
    /\ LET b == BuildRequest(thr[t].call, transaction_id)
       IN  thr' = [thr EXCEPT
                ![t].tid = transaction_id,
                ![t].pc = IF b.kind = "ok" THEN "open" ELSE "idle",
                ![t].request = b.data,
                ![t].result = IF b.kind = "ok" THEN NoResult ELSE Failed(b.kind, -1, <<>>)]
    /\ tids' = Append(tids, transaction_id)
    /\ UNCHANGED <<transaction_id, sock, is_opened, lock, conn, slaves, calls, served,
                   otherVars>>

\* the master's end of connection c is closed; what was on its way to the
\* master is lost
Closed(cs, c) ==
    IF c = 0 THEN cs ELSE [cs EXCEPT ![c].masterOpen = FALSE, ![c].inb = <<>>]

\* open() as it would be if it connected again on every call: the socket it
\* holds is closed and a new one connected
OpenAgain(t) ==
    /\ thr[t].pc = "open"
    /\ lock = 0
    /\ is_opened /\ sock # 0
    /\ Len(conn) < MaxConns
    /\ conn' = Append(Closed(conn, sock), NewConn)
    /\ sock' = Len(conn) + 1
    /\ thr' = [thr EXCEPT ![t].pc = "send"]
    /\ UNCHANGED <<transaction_id, is_opened, lock, slaves, calls, tids, served,
                   otherVars>>

\* open() finds the socket opened and connected (getpeername succeeds)
OpenKeep(t) ==
    /\ thr[t].pc = "open"
    /\ lock = 0
    /\ is_opened /\ sock # 0
    /\ thr' = [thr EXCEPT ![t].pc = "send"]
    /\ UNCHANGED <<transaction_id, sock, is_opened, lock, conn, slaves, calls, tids,
                   served, otherVars>>

\* open() finds the socket opened but no longer connected: getpeername raises
\* and open calls close() while it holds the lock, which is not reentrant
OpenStale(t) ==
    /\ thr[t].pc = "open"
    /\ lock = 0
    /\ is_opened /\ sock # 0
    /\ conn[sock].peerClosed
    /\ lock' = t
    /\ thr' = [thr EXCEPT ![t].pc = "blocked"]
    /\ UNCHANGED <<transaction_id, sock, is_opened, conn, slaves, calls, tids, served,
                   otherVars>>

\* open() connects a new socket
OpenConnect(t) ==
    /\ thr[t].pc = "open"
    /\ lock = 0
    /\ ~(is_opened /\ sock # 0)
    /\ Len(conn) < MaxConns
    /\ conn' = Append(conn, NewConn)
    /\ sock' = Len(conn) + 1
    /\ is_opened' = TRUE
    /\ thr' = [thr EXCEPT ![t].pc = "send"]
    /\ UNCHANGED <<transaction_id, lock, slaves, calls, tids, served, otherVars>>

\* open() fails to connect (refused, timeout, other error) and raises
OpenFail(t) ==
    /\ thr[t].pc = "open"
    /\ lock = 0
    /\ ~(is_opened /\ sock # 0)
    /\ sock' = 0
    /\ is_opened' = FALSE
    /\ thr' = [thr EXCEPT ![t].pc = "except", ![t].cause = "connect"]
    /\ UNCHANGED <<transaction_id, lock, conn, slaves, calls, tids, served, otherVars>>

\* the except branches of _send_receive: close(), then the next attempt or,
\* after the last one, the raise
Except(t) ==
    /\ thr[t].pc = "except"
    /\ lock = 0
    /\ conn' = Closed(conn, sock)
    /\ sock' = 0
    /\ is_opened' = FALSE
    /\ thr' = [thr EXCEPT
            ![t].attempt = @ + 1,
            ![t].cause = "none",
            ![t].pc = IF thr[t].attempt + 1 < retry_count THEN "open" ELSE "idle",
            ![t].result = IF thr[t].attempt + 1 < retry_count THEN NoResult
                          ELSE Failed("io", -1, <<>>)]
    /\ UNCHANGED <<transaction_id, lock, slaves, calls, tids, served, otherVars>>

\* self._sock.sendall(request)
Send(t) ==
    /\ thr[t].pc = "send"
    /\ sock # 0
    /\ conn' = [conn EXCEPT ![sock].out = @ \o thr[t].request]
    /\ thr' = [thr EXCEPT
            ![t].pc = "recv_header",
            ![t].sent = Append(@, [on |-> sock, tid |-> UnpackH(thr[t].request, 0)])]
    /\ UNCHANGED <<transaction_id, sock, is_opened, lock, slaves, calls, tids, served,
                   otherVars>>

\* sendall raises: the peer has closed the connection, or self._sock is None
SendFail(t) ==
    /\ thr[t].pc = "send"
    /\ IF sock = 0 THEN TRUE ELSE conn[sock].peerClosed
    /\ thr' = [thr EXCEPT ![t].pc = "except", ![t].cause = "send"]
    /\ UNCHANGED <<transaction_id, sock, is_opened, lock, conn, slaves, calls, tids,
                   served, otherVars>>

\* the loop "while len(header) < 7" ends with the 7 bytes of the MBAP header
RecvHeader(t) ==
    /\ thr[t].pc = "recv_header"
    /\ sock # 0
    /\ Len(conn[sock].inb) >= MBAP_HEADER_LENGTH
    /\ conn' = [conn EXCEPT ![sock].inb = SliceFrom(@, MBAP_HEADER_LENGTH)]
    /\ thr' = [thr EXCEPT ![t].pc = "recv_body",
                          ![t].header = Slice(conn[sock].inb, 0, MBAP_HEADER_LENGTH)]
    /\ UNCHANGED <<transaction_id, sock, is_opened, lock, slaves, calls, tids, served,
                   otherVars>>

\* a recv ends without the bytes waited for: socket.timeout, b'' after the
\* peer closed, or self._sock is None; the bytes that did arrive are consumed
RecvFail(t) ==
    /\ thr[t].pc \in {"recv_header", "recv_body"}
    /\ LET needed == IF thr[t].pc = "recv_header" THEN MBAP_HEADER_LENGTH
                     ELSE UnpackH(thr[t].header, 4) - 1
       IN  /\ needed > 0
           /\ sock # 0 => Len(conn[sock].inb) < needed
    /\ \E why \in {"timeout", "closed", "none"} :
        /\ why = "none" <=> sock = 0
        /\ why = "closed" => conn[sock].peerClosed
        /\ thr' = [thr EXCEPT ![t].pc = "except", ![t].cause = why]
    /\ conn' = IF sock = 0 THEN conn ELSE [conn EXCEPT ![sock].inb = <<>>]
    /\ UNCHANGED <<transaction_id, sock, is_opened, lock, slaves, calls, tids, served,
                   otherVars>>

\* the loop "while remaining > 0" ends: _send_receive returns header + body
\* and execute decodes it
RecvBody(t) ==
    /\ thr[t].pc = "recv_body"
    /\ LET remaining == UnpackH(thr[t].header, 4) - 1
       IN  IF remaining <= 0
           THEN /\ thr' = [thr EXCEPT ![t].pc = "idle",
                                      ![t].result = Decode(thr[t].call, thr[t].header)]
                /\ conn' = conn
           ELSE /\ sock # 0
                /\ Len(conn[sock].inb) >= remaining
                /\ thr' = [thr EXCEPT
                        ![t].pc = "idle",
                        ![t].result = Decode(thr[t].call,
                            thr[t].header \o Slice(conn[sock].inb, 0, remaining))]
                /\ conn' = [conn EXCEPT ![sock].inb = SliceFrom(@, remaining)]
    /\ UNCHANGED <<transaction_id, sock, is_opened, lock, slaves, calls, tids, served,
                   otherVars>>

\* ------------------------------------------------------------------------
\* The other end of a connection
\* ------------------------------------------------------------------------
\* the first frame waiting in a byte stream, read as both ends read it: 7
\* bytes of header, then length - 1 bytes; <<>> when it is not all there yet
FirstFrame(stream) ==
    IF Len(stream) < MBAP_HEADER_LENGTH THEN <<>>
    ELSE LET remaining == UnpackH(stream, 4) - 1
         IN  IF remaining <= 0 THEN Slice(stream, 0, MBAP_HEADER_LENGTH)
             ELSE IF Len(stream) < MBAP_HEADER_LENGTH + remaining THEN <<>>
             ELSE Slice(stream, 0, MBAP_HEADER_LENGTH + remaining)

\* the PDU a well-behaved device would answer the request frame with
GoodPdu(frame) ==
    LET fc == frame.function_code
        qty == UnpackH(frame.data, 2)
    IN  IF fc \in {READ_COILS, READ_DISCRETE_INPUTS}
        THEN <<fc, (qty + 7) \div 8>> \o [i \in 1..((qty + 7) \div 8) |-> 165]
        ELSE IF fc \in {READ_HOLDING_REGISTERS, READ_INPUT_REGISTERS}
        THEN <<fc, qty * 2>> \o [i \in 1..(qty * 2) |-> i]
        ELSE <<fc>> \o Slice(frame.data, 0, 4)

\* what an arbitrary peer may send back for a request frame: the good
\* answer, the good answer under another transaction id, unit id or protocol
\* id, an exception response with or without its code, a read answer with a
\* byte count of 1, a bare header, and a frame cut short
PeerReplies(frame) ==
    LET tid == frame.transaction_id
        unit == frame.unit_id
        fc == frame.function_code
        good == GoodPdu(frame)
    IN  {Mbap(tid, 0, 1 + Len(good), unit, good),
         Mbap((tid + 1) % 65536, 0, 1 + Len(good), unit, good),
         Mbap(tid, 0, 1 + Len(good), (unit + 1) % 256, good),
         Mbap(tid, 1, 1 + Len(good), unit, good),
         Mbap(tid, 0, 3, unit, <<OrBit80(fc), ILLEGAL_DATA_ADDRESS>>),
         Mbap(tid, 0, 2, unit, <<OrBit80(fc)>>),
         Mbap(tid, 0, 4, unit, <<fc, 1, 5>>),
         Mbap(tid, 0, 1, unit, <<>>),
         Mbap(tid, 0, 6, unit, <<fc, 1>>)}

\* an arbitrary peer reads the next request of connection c, which the master
\* holds open, and answers it
PeerRespond(c) ==
    /\ c \in 1..Len(conn)
    /\ conn[c].masterOpen
    /\ ~conn[c].peerClosed
    /\ LET request == FirstFrame(conn[c].out)
           frame == parse_frame(request)
       IN  /\ request # <<>>
           /\ frame.ok
           /\ \E reply \in PeerReplies(frame) :
                conn' = [conn EXCEPT
                    ![c].out = SliceFrom(@, Len(request)),
                    ![c].inb = @ \o reply]
    /\ UNCHANGED <<transaction_id, sock, is_opened, lock, thr, slaves, calls, tids,
                   served, otherVars>>

\* the peer closes connection c while the master holds it open
PeerClose(c) ==
    /\ c \in 1..Len(conn)
    /\ conn[c].masterOpen
    /\ ~conn[c].peerClosed
    /\ conn' = [conn EXCEPT ![c].peerClosed = TRUE, ![c].out = <<>>]
    /\ UNCHANGED <<transaction_id, sock, is_opened, lock, thr, slaves, calls, tids,
                   served, otherVars>>

\* what was dispatched last
Served(transport, request, r, before) ==
    [transport |-> transport, request |-> request, none |-> r.none, resp |-> r.resp,
     before |-> before]

\* TcpServer._handle_client, one turn of its loop on connection c: a whole
\* request is read, _process_request answers it, the answer is sent if there
\* is one; what is sent to a master that has closed is lost, and the handler
\* ends at its next recv (HandlerEnd)
HandleClient(c) ==
    /\ c \in 1..Len(conn)
    /\ ~conn[c].peerClosed
    /\ LET request == FirstFrame(conn[c].out)
           r == process_request(request, slaves)
       IN  /\ request # <<>>
           /\ slaves' = r.slaves
           /\ conn' = [conn EXCEPT
                ![c].out = SliceFrom(@, Len(request)),
                ![c].inb = IF conn[c].masterOpen /\ ~r.none THEN @ \o r.resp ELSE @]
    /\ UNCHANGED <<transaction_id, sock, is_opened, lock, thr, calls, tids, served,
                   otherVars>>

\* TcpServer._handle_client ends: recv returned b'' because the master
\* closed, or timed out after 30 s without a whole request
HandlerEnd(c) ==
    /\ c \in 1..Len(conn)
    /\ ~conn[c].peerClosed
    /\ FirstFrame(conn[c].out) = <<>>
    /\ conn' = [conn EXCEPT ![c].peerClosed = TRUE, ![c].out = <<>>]
    /\ UNCHANGED <<transaction_id, sock, is_opened, lock, thr, slaves, calls, tids,
                   served, otherVars>>

\* ------------------------------------------------------------------------
\* The servers taken alone: request frames arrive, each is dispatched
\* ------------------------------------------------------------------------
\* the unit ids requests are addressed to: 1 is registered, 2 is not
Units == {1, 2}

\* read requests, quantities on both sides of the protocol's limits
BitReadPdus ==
    {<<fc>> \o PackH(0) \o PackH(qty) :
        fc \in {READ_COILS, READ_DISCRETE_INPUTS}, qty \in {0, 1, 3, 2000, 2001, 2041}}

RegisterReadPdus ==
    {<<fc>> \o PackH(2) \o PackH(qty) :
        fc \in {READ_HOLDING_REGISTERS, READ_INPUT_REGISTERS},
        qty \in {0, 1, 3, 125, 126, 128}}

\* the read requests small enough for the serial line of the model
SmallReadPdus == {pdu \in BitReadPdus \cup RegisterReadPdus : UnpackH(pdu, 3) <= 3}

WritePdus ==
    {<<WRITE_SINGLE_COIL, 0, 1, 255, 0>>, <<WRITE_SINGLE_COIL, 0, 1, 18, 52>>,
     <<WRITE_SINGLE_REGISTER, 0, 3, 18, 52>>,
     <<WRITE_MULTIPLE_COILS, 0, 0, 0, 3, 1, 2>>,
     <<WRITE_MULTIPLE_REGISTERS, 0, 2, 0, 2, 3, 0, 9, 1>>}

\* function codes the dispatch does not know, with and without a body, and
\* known function codes with bodies too short
OtherPdus ==
    {<<fc>> \o body : fc \in {0, 7, 43, 131}, body \in {<<>>, <<1>>, <<0, 0, 0, 1>>}}
    \cup {<<READ_COILS>>, <<READ_HOLDING_REGISTERS, 0, 0>>, <<WRITE_SINGLE_COIL, 0>>}

\* requests at the edges of the blocks and of the address space: reads that
\* start inside a block and run past its end, a read and a write that run
\* past address 65535, writes whose byte count and quantity disagree or whose
\* quantity is 0, and writes whose body ends before the bytes it announces
EdgePdus ==
    {<<READ_COILS, 0, 2, 0, 3>>, <<READ_HOLDING_REGISTERS, 0, 3, 0, 3>>,
     <<READ_INPUT_REGISTERS, 255, 255, 0, 2>>,
     <<WRITE_MULTIPLE_REGISTERS, 255, 255, 0, 2, 4, 0, 1, 0, 2>>,
     <<WRITE_MULTIPLE_REGISTERS, 0, 2, 0, 1, 4, 0, 11, 18, 52>>,
     <<WRITE_MULTIPLE_COILS, 0, 0, 0, 1, 2, 1, 0>>,
     <<WRITE_MULTIPLE_REGISTERS, 0, 2, 0, 0, 0>>,
     <<WRITE_MULTIPLE_REGISTERS, 0, 3, 0, 0, 2, 18, 52>>,
     <<WRITE_MULTIPLE_REGISTERS, 0, 2, 0, 2, 4, 0, 9>>,
     <<WRITE_MULTIPLE_COILS, 0, 0, 0, 3, 1>>,
     <<WRITE_MULTIPLE_COILS, 0, 0, 0, 3>>}

\* the frames a TCP client may send: well-formed ones, and ones with another
\* protocol id or without a PDU
TcpRequests ==
    {Mbap(7, 0, 1 + Len(pdu), unit, pdu) :
        unit \in Units,
        pdu \in BitReadPdus \cup RegisterReadPdus \cup WritePdus \cup OtherPdus
                    \cup EdgePdus}
    \cup {Mbap(7, 1, 6, unit, <<READ_COILS, 0, 0, 0, 1>>) : unit \in Units}
    \cup {Mbap(7, 0, 1, unit, <<>>) : unit \in Units}

\* the frames the serial line may deliver: with a good CRC, and with a bad
\* one (zero, the CRC with its two bytes swapped, the CRC plus one)
RtuRequests ==
    {WithCrc(<<unit>> \o pdu) :
        unit \in Units,
        pdu \in SmallReadPdus \cup WritePdus \cup OtherPdus \cup EdgePdus}
    \cup {<<1, READ_COILS, 0, 0, 0, 1, 0, 0>>}
    \cup {<<1>> \o pdu \o PackH(calculate_crc(<<1>> \o pdu)) : pdu \in WritePdus}
    \cup {<<1, WRITE_SINGLE_REGISTER, 0, 3, 18, 52>>
            \o PackHLittle((calculate_crc(<<1, WRITE_SINGLE_REGISTER, 0, 3, 18, 52>>) + 1)
                           % 65536)}

\* TcpServer._process_request on a frame read from a client
TcpDispatch ==
    /\ \E request \in TcpRequests :
        LET r == process_request(request, slaves)
        IN  /\ slaves' = r.slaves
            /\ served' = Served("tcp", request, r, slaves)
    /\ UNCHANGED <<masterVars, otherVars>>

\* RtuServer._run_server: a frame is complete, _process_request handles it
RtuDispatchFrame ==
    /\ \E request \in RtuRequests :
        LET r == rtu_process_request(request, slaves)
        IN  /\ slaves' = r.slaves
            /\ served' = Served("rtu", request, r, slaves)
    /\ UNCHANGED <<masterVars, otherVars>>

NextServer == TcpDispatch \/ RtuDispatchFrame

\* the servers with their data model, and a master that is not used
InitServer ==
    /\ InitMaster
    /\ InitOther
    /\ transaction_id = 0
    /\ slaves = InitSlaves
    /\ served = NoServed

SpecServer == InitServer /\ [][NextServer]_vars

\* ------------------------------------------------------------------------
\* One thread calling execute on a master whose peer is arbitrary
\* ------------------------------------------------------------------------
\* the steps of execute after its entry
Step(t) ==
    \/ LoadTid(t)
    \/ StoreTid(t)
    \/ ReturnTid(t)
    \/ OpenKeep(t)
    \/ OpenStale(t)
    \/ OpenConnect(t)
    \/ OpenFail(t)
    \/ Except(t)
    \/ Send(t)
    \/ SendFail(t)
    \/ RecvHeader(t)
    \/ RecvFail(t)
    \/ RecvBody(t)

NextMaster ==
    \/ Enter(1, Calls)
    \/ Step(1)
    \/ \E c \in 1..MaxConns : PeerRespond(c) \/ PeerClose(c)

SpecMaster == Init /\ [][NextMaster]_vars

Spec == SpecMaster

\* ------------------------------------------------------------------------
\* One thread calling execute on a master connected to the TcpServer
\* ------------------------------------------------------------------------
LinkCalls ==
    {Call(1, READ_COILS, 0, 10, <<>>),
     Call(2, READ_INPUT_REGISTERS, 0, 2, <<>>),
     Call(1, WRITE_SINGLE_COIL, 1, 0, <<1>>),
     Call(1, WRITE_MULTIPLE_REGISTERS, 2, 0, <<5, 70000>>)}

NextLink ==
    \/ Enter(1, LinkCalls)
    \/ Step(1)
    \/ \E c \in 1..MaxConns : HandleClient(c) \/ HandlerEnd(c)

SpecLink == Init /\ [][NextLink]_vars

\* ------------------------------------------------------------------------
\* Two threads calling execute on the same master, connected to the TcpServer
\* ------------------------------------------------------------------------
ConcCalls == {Call(1, READ_HOLDING_REGISTERS, 2, 2, <<>>)}

\* the server is listening and keeps a connection for as long as the master
\* does: connecting succeeds, and a handler ends only after the master closed
NextConc ==
    \/ \E t \in Threads :
        \/ Enter(t, ConcCalls)
        \/ LoadTid(t)
        \/ StoreTid(t)
        \/ ReturnTid(t)
        \/ OpenKeep(t)
        \/ OpenConnect(t)
        \/ Except(t)
        \/ Send(t)
        \/ SendFail(t)
        \/ RecvHeader(t)
        \/ RecvFail(t)
        \/ RecvBody(t)
    \/ \E c \in 1..MaxConns :
        \/ HandleClient(c)
        \/ HandlerEnd(c) /\ ~conn[c].masterOpen

SpecConc == InitServer /\ [][NextConc]_vars

\* ------------------------------------------------------------------------
\* A Slave used directly (modbus_tcp.py): add_block, remove_block,
\* set_values and get_values called on slave 1 of a TcpServer, which also
\* serves write requests
\* ------------------------------------------------------------------------
\* "if block_name in self.blocks: del self.blocks[block_name]"
Slave_remove_block(blocks, block_name) ==
    SelectSeq(blocks, LAMBDA b : b.name # block_name)

\* the number of calls and requests made on the slave
MaxApiCalls == 4

\* the arguments of the calls: two block names, a bit kind and a register
\* kind, regions (starting address, size) that overlap each other and that
\* reach or pass address 65535, lists of integers inside and outside 16 bits
BlockNames == {"a", "b"}

BlockTypes == {COILS, HOLDING_REGISTERS}

Regions == {<<0, 3>>, <<2, 2>>, <<65534, 2>>, <<65534, 3>>}

ApiAddresses == {-1, 0, 2, 3, 65535}

ApiValues == {<<1>>, <<0, 70000>>, <<-1, 2, 65536>>}

ApiCounts == {1, 3}

\* the write requests served meanwhile
ApiRequests ==
    {Mbap(7, 0, 1 + Len(pdu), 1, pdu) :
        pdu \in {<<WRITE_SINGLE_COIL, 0, 2, 255, 0>>,
                 <<WRITE_SINGLE_REGISTER, 0, 3, 255, 255>>,
                 <<WRITE_MULTIPLE_REGISTERS, 0, 2, 0, 2, 4, 128, 0, 0, 1>>}}

\* the memory of a block: by address, its element (v) and the number of
\* set_values calls that have covered the address (w), none yet
Memory(block) ==
    [a \in block.starting_address..(block.starting_address + block.size - 1) |->
        [v |-> block.data[a - block.starting_address + 1], w |-> 0]]

\* the memories of the blocks, by block name
Memories(blocks) ==
    [name \in {blocks[i].name : i \in 1..Len(blocks)} |->
        Memory(blocks[BlockIndex(blocks, name)])]

\* the call made last, the calls so far, and the memory they should have left
ApiCall(op, name, address, values, result, expect) ==
    [n |-> api.n + 1, op |-> op, name |-> name, address |-> address,
     values |-> values, result |-> result, expect |-> expect]

\* Slave.add_block: the block is created with the defaults of its kind
AddBlock ==
    /\ api.n < MaxApiCalls
    /\ \E name \in BlockNames, block_type \in BlockTypes, region \in Regions :
        /\ slaves' = [slaves EXCEPT ![1] =
                Slave_add_block(@, name, block_type, region[1], region[2])]
        /\ api' = ApiCall("add_block", name, region[1], <<region[2]>>, <<>>,
                (name :> [a \in region[1]..(region[1] + region[2] - 1) |->
                            [v |-> IF IsBitType(block_type) THEN FALSE ELSE 0,
                             w |-> 0]])
                @@ api.expect)
    /\ UNCHANGED <<masterVars, served, rtu, restVars>>

\* Slave.remove_block
RemoveBlock ==
    /\ api.n < MaxApiCalls
    /\ \E name \in BlockNames :
        /\ slaves' = [slaves EXCEPT ![1] = Slave_remove_block(@, name)]
        /\ api' = ApiCall("remove_block", name, 0, <<>>, <<>>,
                [b \in DOMAIN api.expect \ {name} |-> api.expect[b]])
    /\ UNCHANGED <<masterVars, served, rtu, restVars>>

\* Slave.set_values; the expected memory takes, at each address of the block
\* the call covers, the value given for it, as a boolean or modulo 2^16
SetValues ==
    /\ api.n < MaxApiCalls
    /\ \E name \in BlockNames, address \in ApiAddresses, values \in ApiValues :
        /\ slaves' = [slaves EXCEPT ![1] = Slave_set_values(@, name, address, values)]
        /\ api' = ApiCall("set_values", name, address, values, <<>>,
                [b \in DOMAIN api.expect |->
                    [a \in DOMAIN api.expect[b] |->
                        IF b = name /\ address <= a /\ a < address + Len(values)
                        THEN [v |-> IF IsBitType(
                                        slaves[1][BlockIndex(slaves[1], b)].block_type)
                                    THEN values[a - address + 1] # 0
                                    ELSE values[a - address + 1] % 65536,
                              w |-> api.expect[b][a].w + 1]
                        ELSE api.expect[b][a]]])
    /\ UNCHANGED <<masterVars, served, rtu, restVars>>

\* Slave.get_values
GetValues ==
    /\ api.n < MaxApiCalls
    /\ \E name \in BlockNames, address \in ApiAddresses, count \in ApiCounts :
        api' = ApiCall("get_values", name, address, <<count>>,
                       Slave_get_values(slaves[1], name, address, count), api.expect)
    /\ UNCHANGED <<masterVars, served, rtu, slaves, restVars>>

\* a write request is served by TcpServer._process_request; the expected
\* memory goes on from what the blocks hold after it
WriteRequest ==
    /\ api.n < MaxApiCalls
    /\ \E request \in ApiRequests :
        LET r == process_request(request, slaves)
        IN  /\ slaves' = r.slaves
            /\ api' = ApiCall("request", "", 0, request, r.resp, Memories(r.slaves[1]))
    /\ UNCHANGED <<masterVars, served, rtu, restVars>>

NextSlave == AddBlock \/ RemoveBlock \/ SetValues \/ GetValues \/ WriteRequest

\* a server whose slave 1 has just been created: Slave.__init__ leaves no block
InitSlave ==
    /\ InitMaster
    /\ InitOther
    /\ transaction_id = 0
    /\ slaves = (1 :> <<>>)
    /\ served = NoServed

SpecSlave == InitSlave /\ [][NextSlave]_vars

\* ------------------------------------------------------------------------
\* An RtuServer whose slaves are added and removed while frames arrive
\* (modbus_rtu.py)
\* ------------------------------------------------------------------------
\* "self._slaves[slave_id] = Slave(slave_id)": a slave without blocks, in
\* place of the one registered under the id before, if any
add_slave(sl, slave_id) ==
    [x \in DOMAIN sl \cup {slave_id} |-> IF x = slave_id THEN <<>> ELSE sl[x]]

\* "if slave_id in self._slaves: del self._slaves[slave_id]"
remove_slave(sl, slave_id) == [x \in DOMAIN sl \ {slave_id} |-> sl[x]]

\* the slave ids of the calls and the slave addresses of the frames: the
\* broadcast address and two others
SlaveIds == {0, 1, 2}

\* the frames the serial line delivers, all with a good CRC
AddressedFrames ==
    {WithCrc(<<unit>> \o pdu) :
        unit \in SlaveIds,
        pdu \in {<<READ_COILS, 0, 0, 0, 1>>, <<READ_HOLDING_REGISTERS, 0, 0, 0, 2>>,
                 <<WRITE_SINGLE_REGISTER, 0, 0, 0, 5>>,
                 <<WRITE_MULTIPLE_COILS, 0, 0, 0, 1, 1, 1>>, <<7, 0>>}}

\* RtuServer.add_slave
AddSlave ==
    /\ \E slave_id \in SlaveIds : slaves' = add_slave(slaves, slave_id)
    /\ UNCHANGED <<masterVars, served, otherVars>>

\* RtuServer.remove_slave
RemoveSlave ==
    /\ \E slave_id \in SlaveIds : slaves' = remove_slave(slaves, slave_id)
    /\ UNCHANGED <<masterVars, served, otherVars>>

\* RtuServer._run_server: a frame is complete, _process_request handles it
\* and the response, if there is one, is written to the port
RtuReceive ==
    /\ \E request \in AddressedFrames :
        LET r == rtu_process_request(request, slaves)
        IN  /\ slaves' = r.slaves
            /\ served' = Served("rtu", request, r, slaves)
    /\ UNCHANGED <<masterVars, otherVars>>

NextRtuServer == AddSlave \/ RemoveSlave \/ RtuReceive

\* RtuServer.__init__ registers the slave id it is given if it is positive
\* (1 unless the caller gives another)
InitRtuServer ==
    /\ InitMaster
    /\ InitOther
    /\ transaction_id = 0
    /\ \E slave_id \in SlaveIds :
        slaves = IF slave_id > 0 THEN add_slave(<<>>, slave_id) ELSE <<>>
    /\ served = NoServed

SpecRtuServer == InitRtuServer /\ [][NextRtuServer]_vars

\* ------------------------------------------------------------------------
\* RtuMaster (modbus_rtu.py): execute, _send_receive and the serial port.
\* Time is counted in the 1 ms sleeps of the receive loop.
\* ------------------------------------------------------------------------
\* RtuMaster._parse_response: None (ok false) for a short frame, another
\* slave address or a bad CRC, else the function code and the data
rtu_parse_response(response, slave) ==
    IF Len(response) < 5 THEN [ok |-> FALSE]
    ELSE IF response[1] # slave THEN [ok |-> FALSE]
    ELSE IF response[Len(response) - 1] + 256 * response[Len(response)]
            # calculate_crc(SubSeq(response, 1, Len(response) - 2))
    THEN [ok |-> FALSE]
    ELSE [ok |-> TRUE, function_code |-> response[2],
          data |-> SubSeq(response, 3, Len(response) - 2)]

\* what execute does with the bytes _send_receive collected: fewer than 5
\* are None; every failure returns the empty tuple, except the struct.error
\* of a register slice shorter than 2 bytes, which execute lets through
RtuDecode(call, response) ==
    LET parsed == rtu_parse_response(response, call.slave)
        fc == call.function_code
        qty == call.quantity_of_x
    IN  IF ~parsed.ok THEN Returned(<<>>, response)
        ELSE IF HasBit80(parsed.function_code) THEN Returned(<<>>, response)
        ELSE IF fc \in {READ_COILS, READ_DISCRETE_INPUTS}
        THEN (IF Len(parsed.data) < 1 THEN Returned(<<>>, response)
              ELSE Returned(Slice(UnpackBits(Slice(parsed.data, 1, 1 + parsed.data[1])),
                                  0, qty), response))
        ELSE IF fc \in {READ_HOLDING_REGISTERS, READ_INPUT_REGISTERS}
        THEN (IF Len(parsed.data) < 1 THEN Returned(<<>>, response)
              ELSE LET byte_count == parsed.data[1]
                       register_data == Slice(parsed.data, 1, 1 + byte_count)
                   IN  IF ~RegistersUnpack(register_data, byte_count)
                       THEN Failed("struct", -1, response)
                       ELSE Returned(Slice(RegisterValues(register_data, byte_count),
                                           0, qty), response))
        ELSE IF Len(parsed.data) >= 4
        THEN Returned(<<UnpackH(parsed.data, 0), UnpackH(parsed.data, 2)>>, response)
        ELSE Returned(<<>>, response)

\* the number of execute calls
MaxRtuCalls == 2

\* self._timeout, in sleeps of the receive loop
RtuTimeoutTicks == 2

\* the most bytes the line delivers during one call
MaxLine == 9

\* the calls made: to the broadcast address and to slave 1
RtuCalls ==
    {Call(0, WRITE_SINGLE_REGISTER, 3, 0, <<5>>),
     Call(0, READ_COILS, 0, 3, <<>>),
     Call(1, READ_COILS, 0, 3, <<>>),
     Call(1, READ_HOLDING_REGISTERS, 2, 2, <<>>),
     Call(1, 7, 0, 0, <<>>)}

\* what the line may deliver: responses whole or in two parts, among them an
\* exception response, a response of another slave and one with a bad CRC
LineFrames ==
    {WithCrc(<<1, READ_COILS, 1, 5>>), WithCrc(<<1, 131, 2>>),
     WithCrc(<<2, READ_COILS, 1, 5>>), WithCrc(<<0, READ_COILS, 1, 5>>),
     WithCrc(<<1, READ_HOLDING_REGISTERS, 4, 0, 11, 0, 22>>),
     <<1, READ_COILS, 1, 5, 0, 0>>}

LineChunks ==
    UNION {{f, SubSeq(f, 1, 3), SubSeq(f, 4, Len(f))} : f \in LineFrames}

\* execute up to the receive loop of _send_receive: the request is built,
\* the buffers are reset, the request is written.  An unsupported function
\* code returns the empty tuple without sending.
RtuExecute ==
    /\ rtu.pc \in {"idle", "done"}
    /\ rtu.calls < MaxRtuCalls
    /\ \E call \in RtuCalls :
        LET d == RequestData(call)
        IN  rtu' = IF d.kind = "unsupported"
                   THEN [rtu EXCEPT !.pc = "done", !.call = call, !.request = <<>>,
                                    !.response = <<>>, !.elapsed = 0,
                                    !.calls = @ + 1, !.result = Returned(<<>>, <<>>)]
                   ELSE [rtu EXCEPT !.pc = "receiving", !.call = call,
                                    !.request = WithCrc(<<call.slave, call.function_code>>
                                                        \o d.data),
                                    !.response = <<>>, !.in_waiting = <<>>,
                                    !.elapsed = 0, !.calls = @ + 1, !.result = NoResult]
    /\ UNCHANGED <<masterVars, slaves, served, api, restVars>>

\* bytes arrive in the port's input buffer
RtuLine ==
    /\ rtu.pc \in {"receiving", "gap"}
    /\ \E chunk \in LineChunks :
        /\ Len(rtu.response) + Len(rtu.in_waiting) + Len(chunk) <= MaxLine
        /\ rtu' = [rtu EXCEPT !.in_waiting = @ \o chunk]
    /\ UNCHANGED <<masterVars, slaves, served, api, restVars>>

\* the receive loop finds bytes waiting and reads them; with 5 bytes or more
\* it sleeps for the character gap
RtuRead ==
    /\ rtu.pc = "receiving"
    /\ rtu.elapsed < RtuTimeoutTicks
    /\ rtu.in_waiting # <<>>
    /\ rtu' = [rtu EXCEPT !.response = @ \o rtu.in_waiting, !.in_waiting = <<>>,
                          !.pc = IF Len(rtu.response) + Len(rtu.in_waiting) >= 5
                                 THEN "gap" ELSE "receiving"]
    /\ UNCHANGED <<masterVars, slaves, served, api, restVars>>

\* after the character gap: nothing more is waiting, the frame is taken as
\* complete and execute decodes it; or more is waiting and the loop goes on
RtuGapEnd ==
    /\ rtu.pc = "gap"
    /\ rtu' = IF rtu.in_waiting = <<>>
              THEN [rtu EXCEPT !.pc = "done",
                               !.result = RtuDecode(rtu.call, rtu.response)]
              ELSE [rtu EXCEPT !.pc = "receiving"]
    /\ UNCHANGED <<masterVars, slaves, served, api, restVars>>

\* the receive loop finds nothing waiting and sleeps for 1 ms
RtuWait ==
    /\ rtu.pc = "receiving"
    /\ rtu.elapsed < RtuTimeoutTicks
    /\ rtu.in_waiting = <<>>
    /\ rtu' = [rtu EXCEPT !.elapsed = @ + 1]
    /\ UNCHANGED <<masterVars, slaves, served, api, restVars>>

\* the timeout has passed: the loop ends and execute decodes what it has
RtuTimeout ==
    /\ rtu.pc = "receiving"
    /\ rtu.elapsed >= RtuTimeoutTicks
    /\ rtu' = [rtu EXCEPT !.pc = "done", !.result = RtuDecode(rtu.call, rtu.response)]
    /\ UNCHANGED <<masterVars, slaves, served, api, restVars>>

NextRtuMaster ==
    RtuExecute \/ RtuLine \/ RtuRead \/ RtuGapEnd \/ RtuWait \/ RtuTimeout

SpecRtuMaster == InitServer /\ [][NextRtuMaster]_vars

\* ------------------------------------------------------------------------
\* Client handler threads of one TcpServer on the same data model
\* (modbus_tcp.py).  _run_server starts one thread per accepted client; each
\* runs _handle_client, and no lock is taken anywhere between recv and
\* sendall: Databank.get_values and Databank.set_values are plain loops over
\* the elements, so the threads interleave between two iterations.
\* ------------------------------------------------------------------------
Handlers == {1, 2}

\* requests each handler reads in one behaviour
MaxHandled == 2

\* the client of handler 1 writes, the client of handler 2 reads; all
\* requests address slave 1
HandlerRequests(h) ==
    {Mbap(h, 0, 1 + Len(pdu), 1, pdu) :
        pdu \in IF h = 1
                THEN {<<WRITE_MULTIPLE_REGISTERS, 0, 2, 0, 2, 4, 0, 1, 0, 2>>,
                      <<WRITE_MULTIPLE_REGISTERS, 0, 3, 0, 2, 4, 0, 44, 0, 55>>,
                      <<WRITE_MULTIPLE_COILS, 0, 0, 0, 3, 1, 2>>}
                ELSE {<<READ_HOLDING_REGISTERS, 0, 2, 0, 3>>,
                      <<READ_COILS, 0, 0, 0, 4>>}}

\* the call on the data model that the handler of the request's function
\* code makes: _get_values_by_type(block_type, address, count) or
\* _set_values_by_type(block_type, address, values)
DataCall(request) ==
    LET frame == parse_frame(request)
        fc == frame.function_code
        start_addr == UnpackH(frame.data, 0)
        quantity == UnpackH(frame.data, 2)
        byte_count == frame.data[5]
    IN  IF fc = READ_COILS
        THEN [kind |-> "read", block_type |-> COILS, address |-> start_addr,
              count |-> quantity, values |-> <<>>]
        ELSE IF fc = READ_HOLDING_REGISTERS
        THEN [kind |-> "read", block_type |-> HOLDING_REGISTERS,
              address |-> start_addr, count |-> quantity, values |-> <<>>]
        ELSE IF fc = WRITE_MULTIPLE_COILS
        THEN [kind |-> "write", block_type |-> COILS, address |-> start_addr,
              count |-> 0,
              values |-> CoilValues(Slice(frame.data, 5, 5 + byte_count), quantity)]
        ELSE [kind |-> "write", block_type |-> HOLDING_REGISTERS,
              address |-> start_addr, count |-> 0,
              values |-> RegisterValues(Slice(frame.data, 5, 5 + byte_count),
                                        byte_count)]

\* a handler blocked in recv
IdleHandler ==
    [pc |-> "recv", handled |-> 0, request |-> <<>>, kind |-> "none",
     block_type |-> "", block |-> 0, address |-> 0, count |-> 0, values |-> <<>>,
     i |-> 0, result |-> <<>>, response |-> <<>>, admissible |-> {}]

\* the data models of slave 1 that an operation starting now may act on if
\* every operation were atomic: the current one when no set_values is under
\* way, else the one before that set_values began and the one it leaves
AtomicNow ==
    LET writing == {w \in Handlers : ops[w].pc = "set_values"}
    IN  IF writing = {} THEN {slaves[1]}
        ELSE UNION {ops[w].admissible : w \in writing}

\* _handle_client reads a whole request; _process_request parses it and the
\* handler of its function code unpacks the body and looks the block up
\* (_find_block).  For a write, admissible holds the data model before the
\* write and the one after it; every read under way may come after it.
HandlerReceive(h) ==
    /\ ops[h].pc = "recv"
    /\ ops[h].handled < MaxHandled
    /\ \E request \in HandlerRequests(h) :
        LET call == DataCall(request)
            block == find_block(slaves[1], call.block_type, call.address)
            after == set_values_by_type(slaves[1], call.block_type, call.address,
                                        call.values)
            started ==
                [ops[h] EXCEPT !.pc = IF call.kind = "read" THEN "get_values"
                                      ELSE "set_values",
                               !.request = request, !.kind = call.kind,
                               !.block_type = call.block_type, !.block = block,
                               !.address = call.address, !.count = call.count,
                               !.values = call.values, !.i = 0, !.result = <<>>,
                               !.response = <<>>,
                               !.admissible = IF call.kind = "read" THEN AtomicNow
                                              ELSE {slaves[1], after}]
        IN  ops' = [g \in Handlers |->
                        IF g = h THEN started
                        ELSE IF call.kind = "write"
                                /\ ops[g].pc \in {"get_values", "respond"}
                        THEN [ops[g] EXCEPT !.admissible = @ \cup {after}]
                        ELSE ops[g]]
    /\ UNCHANGED <<masterVars, slaves, served, api, rtu, calc, lastVars>>

\* one iteration of the loop of Databank.get_values
GetElement(h) ==
    /\ ops[h].pc = "get_values"
    /\ LET o == ops[h]
           block == slaves[1][o.block]
           value == Databank_get_values(block, o.address + o.i, 1)[1]
       IN  ops' = [ops EXCEPT ![h].result = Append(@, value),
                              ![h].i = @ + 1,
                              ![h].pc = IF o.i + 1 = o.count THEN "respond"
                                        ELSE "get_values"]
    /\ UNCHANGED <<masterVars, slaves, served, api, rtu, calc, lastVars>>

\* one iteration of the loop of Databank.set_values
SetElement(h) ==
    /\ ops[h].pc = "set_values"
    /\ LET o == ops[h]
           block == slaves[1][o.block]
       IN  /\ slaves' = [slaves EXCEPT ![1][o.block] =
                            Databank_set_values(block, o.address + o.i,
                                                <<o.values[o.i + 1]>>)]
           /\ ops' = [ops EXCEPT ![h].i = @ + 1,
                                 ![h].pc = IF o.i + 1 = Len(o.values) THEN "respond"
                                           ELSE "set_values"]
    /\ UNCHANGED <<masterVars, served, api, rtu, calc, lastVars>>

\* the handler builds the response from the values read, or the echo of a
\* write, _handle_client sends it and goes back to recv
HandlerRespond(h) ==
    /\ ops[h].pc = "respond"
    /\ LET o == ops[h]
           frame == parse_frame(o.request)
           response ==
               IF o.kind = "write"
               THEN build_request(frame.transaction_id, frame.unit_id,
                                  frame.function_code, SubSeq(frame.data, 1, 4))
               ELSE IF o.block_type = COILS
               THEN build_read_coils_response(frame.transaction_id, frame.unit_id,
                                              o.result)
               ELSE build_read_holding_registers_response(
                        frame.transaction_id, frame.unit_id, o.result)
       IN  ops' = [ops EXCEPT ![h].pc = "recv", ![h].handled = @ + 1,
                              ![h].response = response]
    /\ UNCHANGED <<masterVars, slaves, served, api, rtu, calc, lastVars>>

NextHandlers ==
    \E h \in Handlers :
        \/ HandlerReceive(h)
        \/ GetElement(h)
        \/ SetElement(h)
        \/ HandlerRespond(h)

\* a server with two connected clients
InitHandlers ==
    /\ InitMaster
    /\ transaction_id = 0
    /\ slaves = InitSlaves
    /\ served = NoServed
    /\ api = NoApi
    /\ rtu = RtuIdle
    /\ calc = NoCalc
    /\ ops = [h \in Handlers |-> IdleHandler]
    /\ reader = NoReader
    /\ srv = NoServer

SpecHandlers == InitHandlers /\ [][NextHandlers]_vars

\* ------------------------------------------------------------------------
\* The codec functions and the RTU timing taken alone (modbus_frame.py,
\* modbus_rtu.py): one function is applied to arguments drawn from the sets
\* below and its value is kept in calc.
\* ------------------------------------------------------------------------
\* a duration in milliseconds as a fraction; the code computes in floating
\* point, whose rounding (below 1e-15 s) is left out
Millis(num, den) == [num |-> num, den |-> den]

\* k_num / k_den times the duration t
Scaled(k_num, k_den, t) == Millis(k_num * t.num, k_den * t.den)

SameDuration(a, b) == a.num * b.den = b.num * a.den

\* RtuMaster._calculate_t0 and RtuServer._calculate_t0 (the same body):
\* 0.00175 s above 19200 baud, else 11.0 / baudrate
calculate_t0(baudrate) ==
    IF baudrate > 19200 THEN Millis(175, 100) ELSE Millis(11 * 1000, baudrate)

\* the silence waited after a frame: time.sleep(3.5 * self._t0) in
\* _send_receive and _run_server, and the bound of the server's test
\* "time.time() - last_byte_time > 3.5 * self._t0"
frame_silence(baudrate) == Scaled(7, 2, calculate_t0(baudrate))

\* the gap waited for a further character: time.sleep(1.5 * self._t0)
character_gap(baudrate) == Scaled(3, 2, calculate_t0(baudrate))

Bauds == {1200, 2400, 4800, 9600, 19200, 19201, 38400, 57600, 115200}

CalcTids == {0, 1, 258, 65535}

CalcUnits == {0, 1, 247, 255}

SupportedCodes ==
    {READ_COILS, READ_DISCRETE_INPUTS, READ_HOLDING_REGISTERS, READ_INPUT_REGISTERS,
     WRITE_SINGLE_COIL, WRITE_SINGLE_REGISTER, WRITE_MULTIPLE_COILS,
     WRITE_MULTIPLE_REGISTERS}

\* the longest body of a 253-byte PDU
MaxBody == 252

Bodies ==
    {<<>>, <<0>>, <<0, 0, 0, 1>>, <<255, 255, 255, 255>>,
     <<0, 2, 0, 2, 4, 0, 1, 0, 2>>, [i \in 1..MaxBody |-> (7 * i) % 256]}

\* every list of booleans of up to this length is encoded
MaxAllCoils == 8

\* the longest list of booleans encoded
MaxCoils == 2000

CoilLists ==
    UNION {[1..n -> BOOLEAN] : n \in 1..MaxAllCoils}
    \cup UNION {{[i \in 1..n |-> TRUE], [i \in 1..n |-> FALSE],
                 [i \in 1..n |-> i % 2 = 0], [i \in 1..n |-> i % 3 = 1],
                 [i \in 1..n |-> i = n], [i \in 1..n |-> i = 1]} :
                n \in {9, 15, 16, 17, MaxCoils - 1, MaxCoils}}

\* the example frame of the CRC, and other byte strings
CrcExample == <<1, 4, 2, 255, 255>>

CrcBuffers ==
    {<<>>, <<0>>, <<255>>, <<1, 3, 0, 2, 0, 2>>, <<1, 131, 2>>, <<0, 0, 0, 0, 0, 0>>,
     CrcExample}
    \cup {<<b>> : b \in 0..255}

\* the values the CRC of the example is compared with: every value with a
\* zero high byte, the values 0x8000..0x83FF, the byte-swapped CRC and 0xFFFF
CrcCandidates == (0..255) \cup (32768..33791) \cup {47232, 65535}

\* the calls whose request frame is built and answered
ExchangeCalls ==
    {Call(unit, fc, 2, 3, <<1, 0, 65535>>) : unit \in {1, 2}, fc \in SupportedCodes}

Apply(f, args) == [f |-> f, args |-> args, done |-> FALSE, value |-> <<>>]

Applied(c, value) == [c EXCEPT !.done = TRUE, !.value = value]

CalcInputs ==
    {Apply("parse_frame", <<tid, unit, fc, body>>) :
        tid \in CalcTids, unit \in CalcUnits, fc \in SupportedCodes, body \in Bodies}
    \cup {Apply("parse_read_coils_response", <<tid, 1, coils>>) :
            tid \in {7}, coils \in CoilLists}
    \cup {Apply("calculate_crc", <<buffer>>) : buffer \in CrcBuffers}
    \cup {Apply("verify_crc", <<CrcExample, crc>>) : crc \in CrcCandidates}
    \cup {Apply("verify_crc", <<buffer, crc>>) :
            buffer \in CrcBuffers, crc \in {0, 1, 32952, 47232, 65535}}
    \cup {Apply("_process_request", <<call>>) : call \in ExchangeCalls}
    \cup {Apply("_calculate_t0", <<baudrate>>) : baudrate \in Bauds}

\* parse_frame(build_request(transaction_id, unit_id, function_code, data))
BuildParse ==
    /\ calc.f = "parse_frame" /\ ~calc.done
    /\ LET a == calc.args
           frame == build_request(a[1], a[2], a[3], a[4])
       IN  calc' = Applied(calc, [built |-> CanBuild(a[1], a[2], a[3], a[4]),
                                  frame |-> frame, parsed |-> parse_frame(frame)])
    /\ UNCHANGED <<masterVars, slaves, served, api, rtu, ops, lastVars>>

\* build_read_coils_response(transaction_id, unit_id, coil_status), then what
\* TcpMaster.execute returns for READ_COILS with quantity len(coil_status)
\* when it receives that response
CoilsRoundTrip ==
    /\ calc.f = "parse_read_coils_response" /\ ~calc.done
    /\ LET a == calc.args
           response == build_read_coils_response(a[1], a[2], a[3])
       IN  calc' = Applied(calc,
                       [response |-> response,
                        result |-> Decode(Call(a[2], READ_COILS, 0, Len(a[3]), <<>>),
                                          response)])
    /\ UNCHANGED <<masterVars, slaves, served, api, rtu, ops, lastVars>>

CalculateCrc ==
    /\ calc.f = "calculate_crc" /\ ~calc.done
    /\ calc' = Applied(calc, calculate_crc(calc.args[1]))
    /\ UNCHANGED <<masterVars, slaves, served, api, rtu, ops, lastVars>>

VerifyCrc ==
    /\ calc.f = "verify_crc" /\ ~calc.done
    /\ calc' = Applied(calc, verify_crc(calc.args[1], calc.args[2]))
    /\ UNCHANGED <<masterVars, slaves, served, api, rtu, ops, lastVars>>

\* RtuMaster._build_request for a call, RtuServer._process_request on that
\* frame, RtuMaster._parse_response on the reply
RtuExchange ==
    /\ calc.f = "_process_request" /\ ~calc.done
    /\ LET call == calc.args[1]
           request == WithCrc(<<call.slave, call.function_code>>
                              \o RequestData(call).data)
           r == rtu_process_request(request, slaves)
       IN  calc' = Applied(calc,
                       [request |-> request, none |-> r.none, response |-> r.resp,
                        parsed |-> rtu_parse_response(r.resp, call.slave)])
    /\ UNCHANGED <<masterVars, slaves, served, api, rtu, ops, lastVars>>

\* the waits of the RTU master and the RTU server at a baud rate
Silence ==
    /\ calc.f = "_calculate_t0" /\ ~calc.done
    /\ LET baudrate == calc.args[1]
       IN  calc' = Applied(calc, [t0 |-> calculate_t0(baudrate),
                                  frame_silence |-> frame_silence(baudrate),
                                  character_gap |-> character_gap(baudrate)])
    /\ UNCHANGED <<masterVars, slaves, served, api, rtu, ops, lastVars>>

NextCalc ==
    \/ BuildParse
    \/ CoilsRoundTrip
    \/ CalculateCrc
    \/ VerifyCrc
    \/ RtuExchange
    \/ Silence

InitCalc ==
    /\ InitMaster
    /\ transaction_id = 0
    /\ slaves = InitSlaves
    /\ served = NoServed
    /\ api = NoApi
    /\ rtu = RtuIdle
    /\ ops = NoOps
    /\ calc \in CalcInputs
    /\ reader = NoReader
    /\ srv = NoServer

SpecCalc == InitCalc /\ [][NextCalc]_vars

\* ------------------------------------------------------------------------
\* Clients of the TcpServer that send frames of their own (modbus_tcp.py):
\* _run_server accepts a client and starts _handle_client on its socket
\* ------------------------------------------------------------------------
\* clients the server accepts in one behaviour
MaxClients == 2

\* bytes of a connection that its handler or its client has not read yet,
\* both directions together, up to which the client sends another frame
MaxPending == 24

\* well-formed requests, a frame with protocol id 1, a frame that ends after
\* the unit id (length 1), one whose length field is 0, a read of 128
\* registers (struct.pack('B', 256) raises in the handler) and a request to
\* a unit id that is no slave
ClientFrames ==
    {Mbap(1, 0, 6, 1, <<READ_HOLDING_REGISTERS, 0, 2, 0, 2>>),
     Mbap(2, 0, 6, 1, <<WRITE_SINGLE_REGISTER, 0, 3, 18, 52>>),
     Mbap(3, 1, 6, 1, <<READ_COILS, 0, 0, 0, 1>>),
     Mbap(4, 0, 1, 1, <<>>),
     Mbap(5, 0, 0, 1, <<>>),
     Mbap(6, 0, 6, 1, <<READ_HOLDING_REGISTERS, 0, 2, 0, 128>>),
     Mbap(7, 0, 6, 9, <<READ_COILS, 0, 0, 0, 1>>)}

\* self._sock.accept() returns a new client socket
ClientConnect ==
    /\ Len(conn) < MaxClients
    /\ conn' = Append(conn, NewConn)
    /\ UNCHANGED <<transaction_id, sock, is_opened, lock, thr, slaves, calls, tids,
                   served, otherVars>>

\* the client of connection c sends a frame
ClientSend(c) ==
    /\ c \in 1..Len(conn)
    /\ conn[c].masterOpen
    /\ ~conn[c].peerClosed
    /\ \E frame \in ClientFrames :
        /\ Len(conn[c].inb) + Len(conn[c].out) + Len(frame) <= MaxPending
        /\ conn' = [conn EXCEPT ![c].out = @ \o frame]
    /\ UNCHANGED <<transaction_id, sock, is_opened, lock, thr, slaves, calls, tids,
                   served, otherVars>>

\* the client of connection c closes its socket
ClientClose(c) ==
    /\ c \in 1..Len(conn)
    /\ conn[c].masterOpen
    /\ conn' = [conn EXCEPT ![c].masterOpen = FALSE]
    /\ UNCHANGED <<transaction_id, sock, is_opened, lock, thr, slaves, calls, tids,
                   served, otherVars>>

NextClient ==
    \/ ClientConnect
    \/ \E c \in 1..MaxClients :
        \/ ClientSend(c)
        \/ ClientClose(c)
        \/ HandleClient(c)
        \/ HandlerEnd(c)

SpecClient == InitServer /\ [][NextClient]_vars

\* ------------------------------------------------------------------------
\* The receive loops taken alone (modbus_tcp.py): TcpServer._handle_client
\* (576-598) and TcpMaster._send_receive (102-123), on a socket whose bytes
\* arrive in chunks of any size
\* ------------------------------------------------------------------------
\* frames in a stream
MaxStreamFrames == 2

\* a request, a PDU of one byte, a frame that ends after the unit id, a
\* header whose length field is 0, a response and a frame of protocol id 1
StreamFrames ==
    {Mbap(1, 0, 6, 1, <<READ_HOLDING_REGISTERS, 0, 2, 0, 2>>),
     Mbap(2, 0, 2, 1, <<7>>),
     Mbap(3, 0, 1, 1, <<>>),
     Mbap(4, 0, 0, 1, <<>>),
     Mbap(5, 0, 7, 1, <<READ_HOLDING_REGISTERS, 4, 0, 11, 0, 22>>),
     Mbap(6, 1, 3, 1, <<129, 2>>)}

\* the bytes of a last frame that arrive before the peer closes
StreamTails == {<<>>, <<0>>, <<0, 9, 0, 0, 0, 6, 1>>, <<0, 9, 0, 0, 0, 6, 1, 3, 0>>}

RECURSIVE FrameRuns(_)
\* the streams of exactly n frames
FrameRuns(n) ==
    IF n = 0 THEN {<<>>}
    ELSE {run \o frame : run \in FrameRuns(n - 1), frame \in StreamFrames}

Streams ==
    {run \o tail : run \in UNION {FrameRuns(n) : n \in 0..MaxStreamFrames},
                   tail \in StreamTails}

\* what sock.recv(bufsize) may return: at least one byte, at most bufsize,
\* of the bytes still to arrive
Chunks(stream, bufsize) ==
    {Slice(stream, 0, k) : k \in 1..Min(bufsize, Len(stream))}

\* a variant that asks for a whole header at every recv
HeaderWantedWhole(header) == MBAP_HEADER_LENGTH

\* recv(7 - len(header))
HeaderWanted(header) == MBAP_HEADER_LENGTH - Len(header)

\* a chunk has been received
Received(r, chunk) ==
    [r EXCEPT !.stream = SliceFrom(@, Len(chunk)), !.recvs = @ + 1]

\* _handle_client: while len(header) < 7: chunk = client_sock.recv(...)
HandlerRecvHeader ==
    /\ reader.who = "handler"
    /\ reader.pc = "header"
    /\ Len(reader.header) < MBAP_HEADER_LENGTH
    /\ \E chunk \in Chunks(reader.stream, HeaderWanted(reader.header)) :
        reader' = [Received(reader, chunk) EXCEPT !.header = @ \o chunk]
    /\ UNCHANGED <<masterVars, slaves, served, api, rtu, ops, calc, srv>>

\* _handle_client: length = unpack('>H', header[4:6]); remaining = length - 1;
\* pdu = b''
HandlerLength ==
    /\ reader.who = "handler"
    /\ reader.pc = "header"
    /\ Len(reader.header) >= MBAP_HEADER_LENGTH
    /\ reader' = [reader EXCEPT !.pc = "body", !.data = <<>>,
                                !.remaining = UnpackH(reader.header, 4) - 1]
    /\ UNCHANGED <<masterVars, slaves, served, api, rtu, ops, calc, srv>>

\* _handle_client: while remaining > 0: chunk = client_sock.recv(remaining)
HandlerRecvPdu ==
    /\ reader.who = "handler"
    /\ reader.pc = "body"
    /\ reader.remaining > 0
    /\ \E chunk \in Chunks(reader.stream, reader.remaining) :
        reader' = [Received(reader, chunk) EXCEPT !.data = @ \o chunk,
                                                  !.remaining = @ - Len(chunk)]
    /\ UNCHANGED <<masterVars, slaves, served, api, rtu, ops, calc, srv>>

\* _handle_client: request = header + pdu; after the request is processed
\* the loop starts again with header = b''
HandlerRequest ==
    /\ reader.who = "handler"
    /\ reader.pc = "body"
    /\ reader.remaining <= 0
    /\ reader' = [reader EXCEPT !.pc = "header", !.header = <<>>, !.data = <<>>,
                                !.frames = Append(@, reader.header \o reader.data)]
    /\ UNCHANGED <<masterVars, slaves, served, api, rtu, ops, calc, srv>>

\* _send_receive: while len(header) < 7: chunk = self._sock.recv(...)
MasterRecvHeader ==
    /\ reader.who = "master"
    /\ reader.pc = "header"
    /\ Len(reader.header) < MBAP_HEADER_LENGTH
    /\ \E chunk \in Chunks(reader.stream, HeaderWanted(reader.header)) :
        reader' = [Received(reader, chunk) EXCEPT !.header = @ \o chunk]
    /\ UNCHANGED <<masterVars, slaves, served, api, rtu, ops, calc, srv>>

\* _send_receive: length = unpack('>H', header[4:6]); remaining = length - 1;
\* data = header
MasterLength ==
    /\ reader.who = "master"
    /\ reader.pc = "header"
    /\ Len(reader.header) >= MBAP_HEADER_LENGTH
    /\ reader' = [reader EXCEPT !.pc = "body", !.data = reader.header,
                                !.remaining = UnpackH(reader.header, 4) - 1]
    /\ UNCHANGED <<masterVars, slaves, served, api, rtu, ops, calc, srv>>

\* _send_receive: while remaining > 0: chunk = self._sock.recv(remaining)
MasterRecvData ==
    /\ reader.who = "master"
    /\ reader.pc = "body"
    /\ reader.remaining > 0
    /\ \E chunk \in Chunks(reader.stream, reader.remaining) :
        reader' = [Received(reader, chunk) EXCEPT !.data = @ \o chunk,
                                                  !.remaining = @ - Len(chunk)]
    /\ UNCHANGED <<masterVars, slaves, served, api, rtu, ops, calc, srv>>

\* _send_receive: return data; the next call receives on the same socket
\* with header = b''
MasterReturn ==
    /\ reader.who = "master"
    /\ reader.pc = "body"
    /\ reader.remaining <= 0
    /\ reader' = [reader EXCEPT !.pc = "header", !.header = <<>>, !.data = <<>>,
                                !.frames = Append(@, reader.data)]
    /\ UNCHANGED <<masterVars, slaves, served, api, rtu, ops, calc, srv>>

\* recv returns b'' after the last byte, or times out: the handler returns,
\* _send_receive raises and closes the socket
ReaderEnd ==
    /\ reader.who \in {"handler", "master"}
    /\ \/ reader.pc = "header" /\ Len(reader.header) < MBAP_HEADER_LENGTH
       \/ reader.pc = "body" /\ reader.remaining > 0
    /\ reader.stream = <<>>
    /\ reader' = [reader EXCEPT !.pc = "ended"]
    /\ UNCHANGED <<masterVars, slaves, served, api, rtu, ops, calc, srv>>

NextStream ==
    \/ HandlerRecvHeader
    \/ HandlerLength
    \/ HandlerRecvPdu
    \/ HandlerRequest
    \/ MasterRecvHeader
    \/ MasterLength
    \/ MasterRecvData
    \/ MasterReturn
    \/ ReaderEnd

\* a handler or a master about to receive a stream
InitStream ==
    /\ InitMaster
    /\ slaves = InitSlaves
    /\ served = NoServed
    /\ api = NoApi
    /\ rtu = RtuIdle
    /\ ops = NoOps
    /\ calc = NoCalc
    /\ srv = NoServer
    /\ \E who \in {"handler", "master"}, stream \in Streams :
        reader = [NoReader EXCEPT !.who = who, !.whole = stream, !.stream = stream,
                                  !.pc = "header"]

SpecStream == InitStream /\ [][NextStream]_vars

\* ------------------------------------------------------------------------
\* TcpServer.start / stop and the threads they start and end (modbus_tcp.py):
\* the accept loops (_run_server) and the client handlers (_handle_client,
\* here with the test of _is_running at the head of its loop)
\* ------------------------------------------------------------------------
\* calls of start in one behaviour
MaxStarts == 2

\* clients accepted in one behaviour
MaxAccepted == 2

\* the request a client sends
LifeRequest == Mbap(1, 0, 6, 1, <<READ_HOLDING_REGISTERS, 0, 2, 0, 2>>)

\* the variables the server's threads and their clients leave alone
lifeRest ==
    <<transaction_id, sock, is_opened, lock, thr, calls, tids, served, api, rtu, ops,
      calc, reader>>

\* threading.Thread(target=self._run_server): about to test _is_running
NewLoop == [pc |-> "test", on |-> 0]

\* threading.Thread(target=self._handle_client): about to test _is_running;
\* late: accepted while _is_running was False; after: requests dispatched
\* since _is_running was cleared, while it is False
NewHandler(late) == [pc |-> "test", late |-> late, after |-> 0]

\* a listening socket that stop has closed while an accept loop still waits
\* on it keeps its address until that accept returns
AddressInUse ==
    \E i \in 1..Len(srv.loops) :
        srv.loops[i].pc = "accept" /\ srv.loops[i].on \in srv.closed

\* TcpServer.start: returns at once when running; else binds a new
\* listening socket, sets _is_running and starts an accept loop, or, when
\* bind raises, closes the socket and leaves _is_running False
ServerStart ==
    /\ srv.starts < MaxStarts
    /\ ~srv.stopping
    /\ srv' =
        IF srv.is_running THEN [srv EXCEPT !.starts = @ + 1]
        ELSE IF AddressInUse
        THEN [srv EXCEPT !.starts = @ + 1, !.sockets = @ + 1,
                         !.closed = @ \cup {srv.sockets + 1}]
        ELSE [srv EXCEPT !.starts = @ + 1, !.sockets = @ + 1,
                         !.sock = srv.sockets + 1,
                         !.is_running = TRUE,
                         !.stopped = FALSE,
                         !.loops = Append(@, NewLoop),
                         !.handlers = [h \in DOMAIN @ |->
                                          [@[h] EXCEPT !.late = FALSE, !.after = 0]]]
    /\ UNCHANGED <<conn, slaves, lifeRest>>

\* TcpServer.stop, its first statement: self._is_running = False
ServerStopFlag ==
    /\ ~srv.stopping
    /\ srv.starts > 0
    /\ srv' = [srv EXCEPT
            !.is_running = FALSE,
            !.stopping = TRUE,
            !.stopped = TRUE]
    /\ UNCHANGED <<conn, slaves, lifeRest>>

\* TcpServer.stop, the rest: self._sock.close(); self._sock = None
ServerStopClose ==
    /\ srv.stopping
    /\ srv' = [srv EXCEPT
            !.stopping = FALSE,
            !.closed = IF srv.sock # 0 THEN @ \cup {srv.sock} ELSE @,
            !.sock = 0]
    /\ UNCHANGED <<conn, slaves, lifeRest>>

\* _run_server: while self._is_running, then self._sock.accept() on the
\* socket self._sock names at that moment
AcceptTest(i) ==
    /\ i \in 1..Len(srv.loops)
    /\ srv.loops[i].pc = "test"
    /\ srv.is_running => srv.sock # 0
    /\ srv' = [srv EXCEPT
            !.loops[i] = IF srv.is_running THEN [pc |-> "accept", on |-> srv.sock]
                         ELSE [pc |-> "done", on |-> 0]]
    /\ UNCHANGED <<conn, slaves, lifeRest>>

\* _run_server: accept returns a client; its handler thread is started
Accept(i) ==
    /\ i \in 1..Len(srv.loops)
    /\ srv.loops[i].pc = "accept"
    /\ srv.loops[i].on \notin srv.closed
    /\ Len(conn) < MaxAccepted
    /\ conn' = Append(conn, NewConn)
    /\ srv' = [srv EXCEPT !.loops[i] = NewLoop,
                          !.handlers = Append(@, NewHandler(~srv.is_running))]
    /\ UNCHANGED <<slaves, lifeRest>>

\* _run_server: accept raises socket.timeout after 1 s (continue) or, on a
\* socket that has been closed, OSError
AcceptTimeout(i) ==
    /\ i \in 1..Len(srv.loops)
    /\ srv.loops[i].pc = "accept"
    /\ srv' = [srv EXCEPT !.loops[i] = NewLoop]
    /\ UNCHANGED <<conn, slaves, lifeRest>>

\* a variant of the handler whose loop never tests _is_running
ServeAlways(h) ==
    /\ h \in 1..Len(srv.handlers)
    /\ srv.handlers[h].pc = "test"
    /\ srv' = [srv EXCEPT !.handlers[h].pc = "recv"]
    /\ UNCHANGED <<conn, slaves, lifeRest>>

\* _handle_client: while self._is_running; when it is False the finally
\* clause closes the client socket
ServeTest(h) ==
    /\ h \in 1..Len(srv.handlers)
    /\ srv.handlers[h].pc = "test"
    /\ srv' = [srv EXCEPT !.handlers[h].pc = IF srv.is_running THEN "recv" ELSE "done"]
    /\ conn' = IF srv.is_running THEN conn
               ELSE [conn EXCEPT ![h].peerClosed = TRUE, ![h].out = <<>>]
    /\ UNCHANGED <<slaves, lifeRest>>

\* the handler of connection h has dispatched one more request and is back
\* at the head of its loop
Turned(h) ==
    [srv EXCEPT !.handlers[h].pc = "test",
                !.handlers[h].after = IF srv.is_running THEN 0 ELSE @ + 1]

\* _handle_client: a whole request is received, _process_request answers
\* it, the answer is sent if there is one
ServeRequest(h) ==
    /\ h \in 1..Len(srv.handlers)
    /\ srv.handlers[h].pc = "recv"
    /\ LET request == FirstFrame(conn[h].out)
           r == process_request(request, slaves)
       IN  /\ request # <<>>
           /\ slaves' = r.slaves
           /\ conn' = [conn EXCEPT
                ![h].out = SliceFrom(@, Len(request)),
                ![h].inb = IF conn[h].masterOpen /\ ~r.none THEN @ \o r.resp ELSE @]
    /\ srv' = Turned(h)
    /\ UNCHANGED lifeRest

\* _handle_client: recv returns b'' or times out after 30 s; the finally
\* clause closes the client socket
ServeEnd(h) ==
    /\ h \in 1..Len(srv.handlers)
    /\ srv.handlers[h].pc = "recv"
    /\ FirstFrame(conn[h].out) = <<>>
    /\ srv' = [srv EXCEPT !.handlers[h].pc = "done"]
    /\ conn' = [conn EXCEPT ![h].peerClosed = TRUE, ![h].out = <<>>]
    /\ UNCHANGED <<slaves, lifeRest>>

\* the client of connection c sends a request when it has none waiting
LifeSend(c) ==
    /\ c \in 1..Len(conn)
    /\ conn[c].masterOpen
    /\ ~conn[c].peerClosed
    /\ conn[c].out = <<>>
    /\ Len(conn[c].inb) < MaxPending
    /\ conn' = [conn EXCEPT ![c].out = LifeRequest]
    /\ UNCHANGED <<slaves, srv, lifeRest>>

\* the steps of the server's own threads
ServerThreads ==
    \/ \E i \in 1..MaxStarts :
        \/ AcceptTest(i)
        \/ Accept(i)
        \/ AcceptTimeout(i)
    \/ \E h \in 1..MaxAccepted :
        \/ ServeTest(h)
        \/ ServeRequest(h)
        \/ ServeEnd(h)

NextLife ==
    \/ ServerStart
    \/ ServerStopFlag
    \/ ServerStopClose
    \/ ServerThreads
    \/ \E c \in 1..MaxAccepted : LifeSend(c)

SpecLife == InitServer /\ [][NextLife]_vars

\* the steps ServeRequest(h) as they change srv: the handler has a whole
\* request to receive and ends its turn
ServeTurn(h) ==
    /\ h \in 1..Len(srv.handlers)
    /\ srv.handlers[h].pc = "recv"
    /\ FirstFrame(conn[h].out) # <<>>
    /\ srv' = Turned(h)

\* the steps of ServerThreads
ThreadSteps ==
    \/ \E i \in 1..MaxStarts :
        \/ AcceptTest(i)
        \/ Accept(i)
        \/ AcceptTimeout(i)
    \/ \E h \in 1..MaxAccepted :
        \/ ServeTest(h)
        \/ ServeTurn(h)
        \/ ServeEnd(h)

\* the threads of the server go on running (accept returns or times out
\* after 1 s, a handler's recv returns or times out after 30 s) and a call
\* of stop runs to its end
SpecLifeFair == SpecLife /\ WF_srv(ThreadSteps) /\ WF_srv(ServerStopClose)

\* ------------------------------------------------------------------------
\* Write requests at the edges of the blocks, on a server with two slaves
\* ------------------------------------------------------------------------
\* slave 1 as in InitSlaves; slave 3 holds coils 2..3 and holding registers
\* 3..5, so that every address written in one slave is also held by the other
WriteSlaves ==
    InitSlaves @@
    (3 :> <<Databank_set_values(Databank("c2", COILS, 2, 2), 2, <<0, 1>>),
            Databank_set_values(Databank("h2", HOLDING_REGISTERS, 3, 3), 3,
                                <<44, 55, 66>>)>>)

\* unit ids of the write requests: 1 and 3 are registered, 2 is not
WriteUnits == {1, 2, 3}

\* write requests whose start address is inside a block of the kind in both
\* slaves, with the range inside the block or running past its end
InsideWritePdus ==
    {<<WRITE_SINGLE_COIL, 0, 3, 0, 0>>,
     <<WRITE_SINGLE_REGISTER, 0, 4, 255, 255>>,
     <<WRITE_MULTIPLE_COILS, 0, 3, 0, 3, 1, 6>>,
     <<WRITE_MULTIPLE_REGISTERS, 0, 4, 0, 3, 6, 255, 255, 0, 6, 0, 7>>}

\* write requests whose start address no block of the kind covers in slave 3
\* (two of them start inside a block of slave 1): past the last address, one
\* address before a block the range then runs into, and an address only a
\* block of another kind covers
OutsideWritePdus ==
    {<<WRITE_SINGLE_COIL, 0, 4, 255, 0>>,
     <<WRITE_SINGLE_REGISTER, 0, 1, 0, 5>>,
     <<WRITE_MULTIPLE_COILS, 0, 1, 0, 3, 1, 2>>,
     <<WRITE_MULTIPLE_REGISTERS, 0, 2, 0, 2, 4, 0, 7, 255, 255>>,
     <<WRITE_MULTIPLE_REGISTERS, 255, 255, 0, 2, 4, 0, 1, 0, 2>>}

\* write requests the handlers reject or fail on
BadWritePdus ==
    {<<WRITE_SINGLE_COIL, 0, 3, 18, 52>>, <<WRITE_SINGLE_REGISTER, 0, 3, 18>>,
     <<WRITE_MULTIPLE_REGISTERS, 0, 3, 0, 2, 4, 0, 9>>,
     <<WRITE_MULTIPLE_COILS, 0, 2, 0, 2>>}

WriteRequests ==
    {Mbap(9, 0, 1 + Len(pdu), unit, pdu) :
        unit \in WriteUnits,
        pdu \in InsideWritePdus \cup OutsideWritePdus \cup BadWritePdus}

\* TcpServer._process_request on a write request read from a client
TcpWrite ==
    /\ \E request \in WriteRequests :
        LET r == process_request(request, slaves)
        IN  /\ slaves' = r.slaves
            /\ served' = Served("tcp", request, r, slaves)
    /\ UNCHANGED <<masterVars, otherVars>>

\* RtuServer._process_request on the same write requests framed for the
\* serial line
RtuWrite ==
    /\ \E unit \in WriteUnits, pdu \in InsideWritePdus \cup OutsideWritePdus :
        LET request == WithCrc(<<unit>> \o pdu)
            r == rtu_process_request(request, slaves)
        IN  /\ slaves' = r.slaves
            /\ served' = Served("rtu", request, r, slaves)
    /\ UNCHANGED <<masterVars, otherVars>>

NextWrites == TcpWrite \/ RtuWrite

InitWrites ==
    /\ InitMaster
    /\ InitOther
    /\ transaction_id = 0
    /\ slaves = WriteSlaves
    /\ served = [NoServed EXCEPT !.before = WriteSlaves]

SpecWrites == InitWrites /\ [][NextWrites]_vars

\* ------------------------------------------------------------------------
\* Properties
\* ------------------------------------------------------------------------
\* the last send of thread t's call
LastSent(t) == thr[t].sent[Len(thr[t].sent)]

\* thread t has sent its request and is receiving the response
InFlight(t) == thr[t].pc \in {"recv_header", "recv_body"}

ReadCodes ==
    {READ_COILS, READ_DISCRETE_INPUTS, READ_HOLDING_REGISTERS, READ_INPUT_REGISTERS}

KnownCodes ==
    ReadCodes \cup {WRITE_SINGLE_COIL, WRITE_SINGLE_REGISTER, WRITE_MULTIPLE_COILS,
                    WRITE_MULTIPLE_REGISTERS}

\* C1: execute returns normally only if the response frame carries the
\* transaction id allocated for the request, the unit id of the slave
\* argument and protocol id 0.
C1_ReturnsOnlyMatchingResponse ==
    thr[1].result.kind = "ok" =>
        LET frame == parse_frame(thr[1].result.frame)
        IN  /\ frame.transaction_id = thr[1].tid
            /\ frame.unit_id = thr[1].call.slave
            /\ frame.protocol_id = 0

\* C2: between a call's send and the full receipt of its response no other
\* call has sent on, or reads from, the same connection: two calls are never
\* both receiving on one connection.
C2_SendReceiveAtomic ==
    \A t, u \in Threads :
        (t # u /\ InFlight(t) /\ InFlight(u)) => LastSent(t).on # LastSent(u).on

\* C3: one call sends its request at most 3 times, each time on a connection
\* opened after the previous one was closed; every connection of a failed
\* attempt is closed; the attempt that receives a response ends the call with
\* its connection open; after 3 failed attempts the call fails and the master
\* holds no connection.
C3_AtMostThreeAttempts ==
    LET T == thr[1]
    IN  /\ T.attempt <= 3
        /\ Len(T.sent) <= 3
        /\ Len(T.sent) <= T.attempt + 1
        /\ \A i, j \in 1..Len(T.sent) : i < j => T.sent[i].on < T.sent[j].on
        /\ \A i \in 1..Len(T.sent) :
            conn[T.sent[i].on].masterOpen => (i = Len(T.sent) /\ T.sent[i].on = sock)
        /\ (T.pc = "open" /\ T.attempt > 0) => (sock = 0 /\ ~is_opened)
        /\ T.result.kind \in {"ok", "exception", "protocol"} =>
            /\ T.pc = "idle"
            /\ T.attempt < 3
            /\ Len(T.sent) >= 1
            /\ LastSent(1).on = sock
        /\ T.result.kind = "io" =>
            (T.pc = "idle" /\ T.attempt = 3 /\ sock = 0 /\ ~is_opened)

\* three attempts were sent on three connections and the call failed
C3_Witness ==
    /\ thr[1].result.kind = "io"
    /\ Len(thr[1].sent) = 3
    /\ ~conn[3].masterOpen

\* C4 as stated: an exception response makes execute fail with the exception
\* code, after exactly one send, with the connection left open.
C4_ExceptionSentOnce ==
    thr[1].result.kind = "exception" =>
        /\ thr[1].result.code # -1
        /\ Len(thr[1].sent) = 1
        /\ sock # 0 /\ is_opened

\* C4 amended: an exception response ends the call at once, with no further
\* send and the connection left open; the error carries the first body byte
\* as the exception code when there is one and no code otherwise; the request
\* was sent once for this attempt and once for each earlier attempt that
\* failed after its send.
C4_ExceptionNotRetried ==
    LET T == thr[1]
    IN  T.result.kind = "exception" =>
            LET frame == parse_frame(T.result.frame)
            IN  /\ T.pc = "idle"
                /\ HasBit80(frame.function_code)
                /\ T.result.code = (IF Len(frame.data) > 0 THEN frame.data[1] ELSE -1)
                /\ Len(T.sent) >= 1
                /\ Len(T.sent) <= T.attempt + 1
                /\ T.attempt < 3
                /\ sock # 0 /\ is_opened
                /\ LastSent(1).on = sock
                /\ conn[sock].masterOpen

\* an exception response with its code arrived on the second send
C4_Witness ==
    /\ thr[1].result.kind = "exception"
    /\ thr[1].result.code = ILLEGAL_DATA_ADDRESS
    /\ Len(thr[1].sent) = 2

\* C5: the ids of consecutive calls are consecutive mod 2^16 and lie in
\* 0..65535, 0 follows 65535, whatever the outcome of the calls, and every
\* send of a call carries the call's id.
C5_TransactionIdsConsecutive ==
    /\ transaction_id \in 0..65535
    /\ \A k \in 1..Len(tids) : tids[k] \in 0..65535
    /\ \A k \in 2..Len(tids) :
        /\ tids[k] = (tids[k - 1] + 1) % 65536
        /\ tids[k - 1] = 65535 => tids[k] = 0
    /\ thr[1].pc \notin {"idle", "get_tid", "store_tid", "return_tid"} =>
        thr[1].tid = tids[Len(tids)]
    /\ \A i \in 1..Len(thr[1].sent) : thr[1].sent[i].tid = thr[1].tid

\* the call after the one with id 65535 has id 0 and sent it twice
C5_Witness ==
    /\ tids = <<65535, 0>>
    /\ Len(thr[1].sent) = 2
    /\ thr[1].sent[2].tid = 0

\* C6: against the TcpServer the response a call consumes, normal or
\* exception, carries the transaction id and the unit id of that call's
\* request, and the call's id is the one allocated for it.
C6_ResponseAnswersOwnRequest ==
    LET T == thr[1]
    IN  T.result.kind \in {"ok", "exception", "protocol"} =>
            LET frame == parse_frame(T.result.frame)
            IN  /\ frame.ok
                /\ frame.transaction_id = T.tid
                /\ frame.unit_id = T.call.slave
                /\ T.tid = tids[Len(tids)]
                /\ frame.transaction_id = UnpackH(T.request, 0)
                /\ frame.unit_id = T.request[MBAP_HEADER_LENGTH]

\* the second call got an exception response on a retry
C6_Witness ==
    /\ thr[1].result.kind = "exception"
    /\ thr[1].attempt >= 1
    /\ Len(thr[1].sent) >= 2
    /\ Len(tids) = 2

\* C7: a read that returns normally returns exactly quantity_of_x values.
C7_ReadReturnsQuantity ==
    (thr[1].result.kind = "ok" /\ thr[1].call.function_code \in ReadCodes) =>
        Len(thr[1].result.values) = thr[1].call.quantity_of_x

\* the frame the TCP server dispatched last
ServedFrame == parse_frame(served.request)

\* C8: a frame that parses as a request and whose unit id is not registered
\* is answered by the TCP server with the exception response of code 4, and
\* the slaves are left as they were.
C8_UnknownUnitAnswered ==
    (/\ served.transport = "tcp"
     /\ ServedFrame.ok
     /\ ServedFrame.unit_id \notin DOMAIN served.before) =>
        /\ ~served.none
        /\ served.resp = Mbap(ServedFrame.transaction_id, 0, 3, ServedFrame.unit_id,
                              <<OrBit80(ServedFrame.function_code), SLAVE_DEVICE_FAILURE>>)
        /\ slaves = served.before

\* a write to an unknown unit was answered, after an earlier write had
\* changed the registered slave
C8_Witness ==
    /\ served.transport = "tcp"
    /\ ServedFrame.ok
    /\ ServedFrame.unit_id = 2
    /\ ServedFrame.function_code = WRITE_SINGLE_REGISTER
    /\ ~served.none
    /\ slaves # InitSlaves

\* C9: a request for a registered slave with a function code outside the
\* eight known ones is answered with the exception response of code 1, by
\* the TCP server and by the RTU server.
C9_UnknownFunctionAnswered ==
    /\ (/\ served.transport = "tcp"
        /\ ServedFrame.ok
        /\ ServedFrame.unit_id \in DOMAIN served.before
        /\ ServedFrame.function_code \notin KnownCodes) =>
            /\ ~served.none
            /\ served.resp = Mbap(ServedFrame.transaction_id, 0, 3, ServedFrame.unit_id,
                                  <<OrBit80(ServedFrame.function_code), ILLEGAL_FUNCTION>>)
    /\ (/\ served.transport = "rtu"
        /\ Len(served.request) >= 4
        /\ verify_crc(SubSeq(served.request, 1, Len(served.request) - 2),
                      served.request[Len(served.request) - 1]
                          + 256 * served.request[Len(served.request)])
        /\ served.request[1] \in DOMAIN served.before
        /\ served.request[2] \notin KnownCodes) =>
            /\ ~served.none
            /\ served.resp = WithCrc(<<served.request[1], OrBit80(served.request[2]),
                                       ILLEGAL_FUNCTION>>)

\* C10: a read request for a registered slave whose quantity is 0, or above
\* 2000 for bits, or above 125 for registers, is answered by the TCP server
\* with the exception response of code 3.
C10_ReadQuantityRejected ==
    (/\ served.transport = "tcp"
     /\ ServedFrame.ok
     /\ ServedFrame.unit_id \in DOMAIN served.before
     /\ ServedFrame.function_code \in ReadCodes
     /\ Len(ServedFrame.data) >= 4
     /\ LET quantity == UnpackH(ServedFrame.data, 2)
        IN  \/ quantity = 0
            \/ quantity > (IF ServedFrame.function_code \in {READ_COILS, READ_DISCRETE_INPUTS}
                           THEN 2000 ELSE 125)) =>
        /\ ~served.none
        /\ served.resp = Mbap(ServedFrame.transaction_id, 0, 3, ServedFrame.unit_id,
                              <<OrBit80(ServedFrame.function_code), ILLEGAL_DATA_VALUE>>)

\* the request the TCP server dispatched last is for a registered slave and
\* its body holds at least the n bytes given
ServedTcp(n) ==
    /\ served.transport = "tcp"
    /\ ServedFrame.ok
    /\ ServedFrame.unit_id \in DOMAIN served.before
    /\ Len(ServedFrame.data) >= n

\* the exception response of the given code to the frame dispatched last
ServedException(exception_code) ==
    /\ ~served.none
    /\ served.resp = Mbap(ServedFrame.transaction_id, 0, 3, ServedFrame.unit_id,
                          <<OrBit80(ServedFrame.function_code), exception_code>>)

\* C11: a read or write-multiple request for a registered slave whose start
\* address plus quantity exceeds 0x10000 is answered by the TCP server with
\* the exception response of code 2.
C11_AddressOverflowRejected ==
    (/\ ServedTcp(4)
     /\ ServedFrame.function_code \in
            ReadCodes \cup {WRITE_MULTIPLE_COILS, WRITE_MULTIPLE_REGISTERS}
     /\ UnpackH(ServedFrame.data, 0) + UnpackH(ServedFrame.data, 2) > 65536) =>
        ServedException(ILLEGAL_DATA_ADDRESS)

\* the body of the RTU frame dispatched last
ServedRtuData == SubSeq(served.request, 3, Len(served.request) - 2)

\* the frame the RTU server dispatched last has a good CRC, is for a
\* registered slave, and its body holds at least the n bytes given
ServedRtu(n) ==
    /\ served.transport = "rtu"
    /\ Len(served.request) >= 4 + n
    /\ verify_crc(SubSeq(served.request, 1, Len(served.request) - 2),
                  served.request[Len(served.request) - 1]
                      + 256 * served.request[Len(served.request)])
    /\ served.request[1] \in DOMAIN served.before

\* the RTU exception response of the given code to the frame dispatched last
ServedRtuException(exception_code) ==
    /\ ~served.none
    /\ served.resp = WithCrc(<<served.request[1], OrBit80(served.request[2]),
                               exception_code>>)

\* what a Write Single Coil request with the given body must have done to the
\* blocks of the slave it addressed
CoilWritten(unit, data) ==
    LET address == UnpackH(data, 0)
        coil_value == UnpackH(data, 2)
    IN  /\ ~served.none
        /\ \A u \in DOMAIN slaves : u # unit => slaves[u] = served.before[u]
        /\ \A i \in 1..Len(slaves[unit]) :
            \A k \in 1..slaves[unit][i].size :
                slaves[unit][i].data[k] =
                    IF /\ i = find_block(served.before[unit], COILS, address)
                       /\ k = address - slaves[unit][i].starting_address + 1
                    THEN coil_value = 65280
                    ELSE served.before[unit][i].data[k]

\* C12: a Write Single Coil request for a registered slave whose value field
\* is neither 0x0000 nor 0xFF00 is answered with the exception response of
\* code 3 and changes nothing; with 0xFF00 the addressed coil becomes true,
\* with 0x0000 false, and no other element changes.  For the TCP server and
\* for the RTU server.
C12_WriteSingleCoilValue ==
    /\ (ServedTcp(4) /\ ServedFrame.function_code = WRITE_SINGLE_COIL) =>
         IF UnpackH(ServedFrame.data, 2) \in {0, 65280}
         THEN CoilWritten(ServedFrame.unit_id, ServedFrame.data)
         ELSE ServedException(ILLEGAL_DATA_VALUE) /\ slaves = served.before
    /\ (ServedRtu(4) /\ served.request[2] = WRITE_SINGLE_COIL) =>
         IF UnpackH(ServedRtuData, 2) \in {0, 65280}
         THEN CoilWritten(served.request[1], ServedRtuData)
         ELSE ServedRtuException(ILLEGAL_DATA_VALUE) /\ slaves = served.before

\* the TCP half of C12 alone
C12_TcpHalf ==
    (ServedTcp(4) /\ ServedFrame.function_code = WRITE_SINGLE_COIL) =>
         IF UnpackH(ServedFrame.data, 2) \in {0, 65280}
         THEN CoilWritten(ServedFrame.unit_id, ServedFrame.data)
         ELSE ServedException(ILLEGAL_DATA_VALUE) /\ slaves = served.before

\* the elements of a slave's blocks that differ between two data models
Changed(before, after) ==
    UNION {{<<i, k>> : k \in {n \in 1..after[i].size :
                                    after[i].data[n] # before[i].data[n]}} :
           i \in 1..Len(after)}

\* C13: a Write Multiple Coils / Registers request for a registered slave
\* whose byte count differs from ceil(quantity / 8) (coils) or 2 * quantity
\* (registers), or whose quantity is 0, is answered by the TCP server with
\* the exception response of code 3 and changes nothing; and no such request
\* changes more elements than its quantity.
C13_WriteMultipleValidated ==
    (/\ ServedTcp(5)
     /\ ServedFrame.function_code \in {WRITE_MULTIPLE_COILS, WRITE_MULTIPLE_REGISTERS}) =>
        LET quantity == UnpackH(ServedFrame.data, 2)
            byte_count == ServedFrame.data[5]
            expected == IF ServedFrame.function_code = WRITE_MULTIPLE_COILS
                        THEN (quantity + 7) \div 8 ELSE 2 * quantity
            unit == ServedFrame.unit_id
        IN  /\ (quantity = 0 \/ byte_count # expected) =>
                (ServedException(ILLEGAL_DATA_VALUE) /\ slaves = served.before)
            /\ Cardinality(Changed(served.before[unit], slaves[unit])) <= quantity

\* the second half of C13 alone: no Write Multiple request changes more
\* elements than its quantity
C13_WritesAtMostQuantity ==
    (/\ ServedTcp(5)
     /\ ServedFrame.function_code \in {WRITE_MULTIPLE_COILS, WRITE_MULTIPLE_REGISTERS}) =>
        Cardinality(Changed(served.before[ServedFrame.unit_id],
                            slaves[ServedFrame.unit_id]))
            <= UnpackH(ServedFrame.data, 2)

\* the body is shorter than the request shape of the function code: 4 bytes
\* for function codes 1 to 6, 5 bytes and the announced byte count for 15, 16
ShortBody(function_code, data) ==
    IF function_code \in {WRITE_MULTIPLE_COILS, WRITE_MULTIPLE_REGISTERS}
    THEN (IF Len(data) < 5 THEN TRUE ELSE Len(data) < 5 + data[5])
    ELSE Len(data) < 4

\* C14: a request for a registered slave with one of the eight supported
\* function codes and a body shorter than the function's request shape is
\* answered with the exception response of code 3 and changes nothing, by
\* the TCP server and by the RTU server.
C14_ShortBodyRejected ==
    /\ (/\ ServedTcp(0)
        /\ ServedFrame.function_code \in KnownCodes
        /\ ShortBody(ServedFrame.function_code, ServedFrame.data)) =>
            (ServedException(ILLEGAL_DATA_VALUE) /\ slaves = served.before)
    /\ (/\ ServedRtu(0)
        /\ served.request[2] \in KnownCodes
        /\ ShortBody(served.request[2], ServedRtuData)) =>
            (ServedRtuException(ILLEGAL_DATA_VALUE) /\ slaves = served.before)

\* the part of C14 the TCP server keeps: a body without the fixed fields
C14_TcpFixedFields ==
    (/\ ServedTcp(0)
     /\ ServedFrame.function_code \in KnownCodes
     /\ Len(ServedFrame.data) <
            (IF ServedFrame.function_code
                    \in {WRITE_MULTIPLE_COILS, WRITE_MULTIPLE_REGISTERS}
             THEN 5 ELSE 4)) =>
        (ServedException(ILLEGAL_DATA_VALUE) /\ slaves = served.before)

\* the valid values of Write Single Coil on the RTU server
C12_RtuValidValues ==
    (/\ ServedRtu(4)
     /\ served.request[2] = WRITE_SINGLE_COIL
     /\ UnpackH(ServedRtuData, 2) \in {0, 65280}) =>
        CoilWritten(served.request[1], ServedRtuData)

\* the block type a read function code reads
KindOf(function_code) ==
    IF function_code = READ_COILS THEN COILS
    ELSE IF function_code = READ_DISCRETE_INPUTS THEN DISCRETE_INPUTS
    ELSE IF function_code = READ_HOLDING_REGISTERS THEN HOLDING_REGISTERS
    ELSE INPUT_REGISTERS

\* the value a read of the block type at addr must yield for address a: the
\* element at a of the first block of the type that covers addr, if a lies
\* inside that block, and the default of the type otherwise
Expected(blocks, block_type, addr, a) ==
    LET covering == {j \in 1..Len(blocks) : Covers(blocks[j], block_type, addr)}
        default == IF IsBitType(block_type) THEN FALSE ELSE 0
    IN  IF covering = {} THEN default
        ELSE LET b == blocks[CHOOSE j \in covering : \A m \in covering : j <= m]
             IN  IF a < b.starting_address + b.size
                 THEN b.data[a - b.starting_address + 1]
                 ELSE default

\* body is the body of a normal read response carrying exactly the qty
\* expected values
ReadAnswered(function_code, body, blocks, addr, qty) ==
    IF IsBitType(KindOf(function_code))
    THEN /\ Len(body) = 1 + (qty + 7) \div 8
         /\ body[1] = (qty + 7) \div 8
         /\ \A i \in 0..(qty - 1) :
                BitOf(body[2 + i \div 8], i % 8)
                    = Expected(blocks, KindOf(function_code), addr, addr + i)
    ELSE /\ Len(body) = 1 + 2 * qty
         /\ body[1] = 2 * qty
         /\ \A i \in 0..(qty - 1) :
                UnpackH(body, 1 + 2 * i)
                    = Expected(blocks, KindOf(function_code), addr, addr + i)

\* the limit of the quantity of a read
ReadLimit(function_code) == IF IsBitType(KindOf(function_code)) THEN 2000 ELSE 125

\* C19: a read request (function codes 1 to 4) for a registered slave with a
\* quantity from 1 to the function's limit gets a normal response with
\* exactly quantity values: value i is the element at addr + i of the block
\* of the kind that covers addr if addr + i lies inside that block, and the
\* kind's default otherwise, also when no block covers addr.  For the TCP
\* server and for the RTU server; the data model is left unchanged.
C19_ReadPadsWithDefaults ==
    /\ (/\ ServedTcp(4)
        /\ ServedFrame.function_code \in ReadCodes
        /\ UnpackH(ServedFrame.data, 2) \in 1..ReadLimit(ServedFrame.function_code)) =>
            /\ ~served.none
            /\ parse_frame(served.resp).ok
            /\ parse_frame(served.resp).transaction_id = ServedFrame.transaction_id
            /\ parse_frame(served.resp).unit_id = ServedFrame.unit_id
            /\ parse_frame(served.resp).function_code = ServedFrame.function_code
            /\ parse_frame(served.resp).length = Len(served.resp) - 6
            /\ ReadAnswered(ServedFrame.function_code, parse_frame(served.resp).data,
                            served.before[ServedFrame.unit_id],
                            UnpackH(ServedFrame.data, 0), UnpackH(ServedFrame.data, 2))
            /\ slaves = served.before
    /\ (/\ ServedRtu(4)
        /\ served.request[2] \in ReadCodes
        /\ UnpackH(ServedRtuData, 2) \in 1..ReadLimit(served.request[2])) =>
            /\ ~served.none
            /\ Len(served.resp) >= 5
            /\ served.resp = WithCrc(SubSeq(served.resp, 1, Len(served.resp) - 2))
            /\ served.resp[1] = served.request[1]
            /\ served.resp[2] = served.request[2]
            /\ ReadAnswered(served.request[2],
                            SubSeq(served.resp, 3, Len(served.resp) - 2),
                            served.before[served.request[1]],
                            UnpackH(ServedRtuData, 0), UnpackH(ServedRtuData, 2))
            /\ slaves = served.before

\* three holding registers were read from address 3 of a block that ends at
\* address 4, after a write had changed the register at address 3: the last
\* value is a default
C19_Witness ==
    /\ ServedTcp(4)
    /\ ServedFrame.function_code = READ_HOLDING_REGISTERS
    /\ ServedFrame.data = <<0, 3, 0, 3>>
    /\ ~served.none
    /\ parse_frame(served.resp).data = <<6, 18, 52, 0, 33, 0, 0>>

\* the blocks of slave 1
Blocks == slaves[1]

\* C15: after any sequence of add_block and remove_block calls no two blocks
\* of the same kind of a slave cover a common address, and every block ends
\* at or below address 65535 (starting_address + size <= 65536).
C15_BlocksDisjointInRange ==
    /\ \A i \in 1..Len(Blocks) :
        Blocks[i].starting_address + Blocks[i].size <= 65536
    /\ \A i, j \in 1..Len(Blocks) :
        (i # j /\ Blocks[i].block_type = Blocks[j].block_type) =>
            \/ Blocks[i].starting_address + Blocks[i].size <= Blocks[j].starting_address
            \/ Blocks[j].starting_address + Blocks[j].size <= Blocks[i].starting_address

C20_ElementsTyped ==
    \A i \in 1..Len(Blocks) :
        /\ Len(Blocks[i].data) = Blocks[i].size
        /\ \A k \in 1..Len(Blocks[i].data) :
            IF IsBitType(Blocks[i].block_type)
            THEN Blocks[i].data[k] \in BOOLEAN
            ELSE Blocks[i].data[k] \in 0..65535

\* set_values has stored -1 in a register block, which holds 65535, next to
\* a register that a write request set to 0x8000
C20_Witness ==
    /\ api.op = "set_values"
    /\ api.values[1] = -1
    /\ \E i \in 1..Len(Blocks) :
        /\ Blocks[i].name = api.name
        /\ Blocks[i].block_type = HOLDING_REGISTERS
        /\ Blocks[i].data = <<32768, 65535>>

\* C16: for any sequence of add_slave and remove_slave calls and any frame,
\* the RTU server writes no response to a frame whose slave address is 0.
C16_BroadcastUnanswered ==
    (/\ served.transport = "rtu"
     /\ Len(served.request) >= 1
     /\ served.request[1] = 0) => served.none

\* the other half of C16: slave id 0 is never a registered slave
C16_ZeroNeverRegistered == 0 \notin DOMAIN slaves

\* what the RTU server keeps of C16: a frame addressed to 0 gets no response
\* as long as no slave is registered under id 0
C16_UnansweredUnlessRegistered ==
    (/\ served.transport = "rtu"
     /\ Len(served.request) >= 1
     /\ served.request[1] = 0
     /\ 0 \notin DOMAIN served.before) => served.none

\* C17: execute called with slave address 0 does not enter the receive loop
\* and spends no time waiting for a response.
C17_BroadcastReturnsAtOnce ==
    (rtu.call.slave = 0 /\ rtu.calls > 0) =>
        /\ rtu.pc \notin {"receiving", "gap"}
        /\ rtu.elapsed = 0

\* the second half of C17 alone: a call to slave address 0 never waits until
\* the response timeout has passed
C17_BroadcastNeverTimesOut ==
    (rtu.call.slave = 0 /\ rtu.calls > 0) => rtu.elapsed < RtuTimeoutTicks

\* the blocks of a data model that requests cannot write: discrete inputs
\* and input registers
ReadOnlyBlocks(sl) ==
    {<<unit, i>> \in UNION {{<<u, k>> : k \in 1..Len(sl[u])} : u \in DOMAIN sl} :
        sl[unit][i].block_type \in {DISCRETE_INPUTS, INPUT_REGISTERS}}

\* C21: whatever sequence of requests the TCP server and the RTU server have
\* handled, every discrete-input block and every input-register block of
\* every slave is the block the data model started with: same place, same
\* range, same elements.
C21_InputsReadOnlyFromWire ==
    /\ DOMAIN slaves = DOMAIN InitSlaves
    /\ \A unit \in DOMAIN slaves : Len(slaves[unit]) = Len(InitSlaves[unit])
    /\ ReadOnlyBlocks(slaves) = ReadOnlyBlocks(InitSlaves)
    /\ \A p \in ReadOnlyBlocks(slaves) : slaves[p[1]][p[2]] = InitSlaves[p[1]][p[2]]

\* a write request from the wire has just changed a coil or a holding
\* register at an address that a discrete-input block covers as well, and
\* an earlier request had already changed the data model
C21_Witness ==
    /\ served.transport \in {"tcp", "rtu"}
    /\ slaves # served.before
    /\ served.before # InitSlaves
    /\ \E p \in ReadOnlyBlocks(slaves) :
        \E i \in 1..Len(slaves[p[1]]) :
            /\ slaves[p[1]][i] # served.before[p[1]][i]
            /\ \E k \in 1..slaves[p[1]][i].size :
                /\ slaves[p[1]][i].data[k] # served.before[p[1]][i].data[k]
                /\ Covers(slaves[p[1]][p[2]], slaves[p[1]][p[2]].block_type,
                          slaves[p[1]][i].starting_address + k - 1)

\* the responses _process_request gives to the request of handler h on the
\* data models the request may act on atomically
AtomicResponses(h) ==
    {process_request(ops[h].request, [slaves EXCEPT ![1] = blocks]).resp :
        blocks \in ops[h].admissible}

\* C22: the response a client handler has sent to a multi-element read is
\* the response to that read on the data model as it was before or after
\* each whole write that ran while the read was handled, never on a mix of
\* the two.
C22_ReadsSeeWholeWrites ==
    \A h \in DOMAIN ops :
        (ops[h].pc = "recv" /\ ops[h].kind = "read") =>
            ops[h].response \in AtomicResponses(h)

\* C23: for every transaction id, unit id, supported function code and body,
\* build_request succeeds and parse_frame of the frame it returns yields the
\* same transaction id, unit id, function code and body, protocol id 0 and
\* the length field 1 + len(PDU) = 2 + len(body), which is the number of
\* bytes after the length field.
C23_FrameRoundTrip ==
    (calc.f = "parse_frame" /\ calc.done) =>
        LET a == calc.args
            parsed == calc.value.parsed
        IN  /\ calc.value.built
            /\ parsed.ok
            /\ parsed.transaction_id = a[1]
            /\ parsed.unit_id = a[2]
            /\ parsed.function_code = a[3]
            /\ parsed.data = a[4]
            /\ parsed.protocol_id = 0
            /\ parsed.length = 1 + Len(<<a[3]>> \o a[4])
            /\ parsed.length = 2 + Len(a[4])
            /\ Len(calc.value.frame) = 6 + parsed.length

\* the frame of the largest transaction id and unit id with an empty body,
\* 8 bytes, the shortest parse_frame accepts, has been built and parsed
C23_Witness ==
    /\ calc.f = "parse_frame" /\ calc.done
    /\ calc.args[1] = 65535 /\ calc.args[2] = 255 /\ calc.args[4] = <<>>
    /\ Len(calc.value.frame) = MBAP_HEADER_LENGTH + 1
    /\ calc.value.parsed.ok

\* C24: for every list L of booleans, 1 <= |L| <= 2000, the response
\* build_read_coils_response builds carries byte count ceil(|L| / 8) and as
\* many bytes, element i of L (from 0) is bit i mod 8 of byte i div 8, the
\* bits of the last byte beyond the list are zero, and TcpMaster.execute,
\* reading |L| coils and receiving that response, returns L itself.
C24_CoilsRoundTrip ==
    (calc.f = "parse_read_coils_response" /\ calc.done) =>
        LET L == calc.args[3]
            frame == parse_frame(calc.value.response)
            byte_count == (Len(L) + 7) \div 8
        IN  /\ frame.ok
            /\ frame.function_code = READ_COILS
            /\ frame.data[1] = byte_count
            /\ Len(frame.data) = 1 + byte_count
            /\ \A i \in 0..(Len(L) - 1) :
                    BitOf(frame.data[2 + (i \div 8)], i % 8) = L[i + 1]
            /\ \A i \in Len(L)..(8 * byte_count - 1) :
                    ~BitOf(frame.data[2 + (i \div 8)], i % 8)
            /\ calc.value.result.kind = "ok"
            /\ calc.value.result.values = L

\* a list of 2000 booleans whose last element alone is true, and so a last
\* byte of the response that holds one element in bit 7, has been encoded
\* and decoded
C24_Witness ==
    /\ calc.f = "parse_read_coils_response" /\ calc.done
    /\ Len(calc.args[3]) = 2000
    /\ calc.args[3][2000] /\ ~calc.args[3][1999]
    /\ parse_frame(calc.value.response).data[251] = 128
    /\ Len(calc.value.result.values) = 2000

\* the last two bytes of an RTU frame are the CRC of the bytes before them,
\* low byte first
TailIsCrc(frame) ==
    /\ Len(frame) >= 2
    /\ verify_crc(SubSeq(frame, 1, Len(frame) - 2),
                  frame[Len(frame) - 1] + 256 * frame[Len(frame)])

\* C25: calculate_crc(buf) is a 16-bit value that verify_crc accepts for
\* buf, and verify_crc(buf, c) is true for no other c; every request frame
\* RtuMaster._build_request builds ends in its own CRC and is not dropped by
\* the RTU server of a registered slave, and every response that server
\* builds ends in its own CRC and is accepted by RtuMaster._parse_response.
C25_CrcVerifiesOnlyItself ==
    /\ (calc.f = "calculate_crc" /\ calc.done) =>
            (calc.value \in 0..65535 /\ verify_crc(calc.args[1], calc.value))
    /\ (calc.f = "verify_crc" /\ calc.done) =>
            (calc.value <=> (calc.args[2] = calculate_crc(calc.args[1])))
    /\ (calc.f = "_process_request" /\ calc.done) =>
            /\ TailIsCrc(calc.value.request)
            /\ calc.args[1].slave \in DOMAIN slaves => ~calc.value.none
            /\ ~calc.value.none =>
                    (TailIsCrc(calc.value.response) /\ calc.value.parsed.ok)

\* verify_crc has accepted the CRC of the example frame
C25_Witness ==
    /\ calc.f = "verify_crc" /\ calc.done
    /\ calc.args[1] = CrcExample
    /\ calc.args[2] = calculate_crc(CrcExample)
    /\ calc.value

\* C26 as stated: the CRC calculate_crc computes over the bytes 01 04 02 FF
\* FF goes on the wire, low byte first, as A8 80.
C26_ExampleCrcAsStated ==
    (calc.f = "calculate_crc" /\ calc.done /\ calc.args[1] = CrcExample) =>
        PackHLittle(calc.value) = <<168, 128>>

\* C26: the CRC calculate_crc computes over the bytes 01 04 02 FF FF is
\* 0x80B8, which goes on the wire, low byte first, as B8 80.
C26_ExampleCrcOnWire ==
    (calc.f = "calculate_crc" /\ calc.done /\ calc.args[1] = CrcExample) =>
        /\ calc.value = 32952
        /\ PackHLittle(calc.value) = <<184, 128>>
        /\ WithCrc(CrcExample) = <<1, 4, 2, 255, 255, 184, 128>>

\* calculate_crc has been applied to the five bytes of the example
C26_Witness ==
    /\ calc.f = "calculate_crc" /\ calc.done
    /\ calc.args = <<(<<1, 4, 2, 255, 255>>)>>
    /\ calc.value \in 0..65535

\* C27: a frame the RTU server received whose last two bytes are not the
\* CRC of the bytes before them, low byte first, or whose first byte is not
\* the address of a registered slave, got no reply and left the data model
\* of every slave as it was.
C27_BadFramesDropped ==
    (/\ served.transport = "rtu"
     /\ \/ ~TailIsCrc(served.request)
        \/ served.request[1] \notin DOMAIN served.before) =>
        (served.none /\ slaves = served.before)

\* a Write Single Register frame for the registered slave 1 that would have
\* changed a register, but whose CRC bytes are in the wrong order, has been
\* dropped
C27_Witness ==
    /\ served.transport = "rtu"
    /\ served.request[1] = 1
    /\ served.request[2] = WRITE_SINGLE_REGISTER
    /\ ~TailIsCrc(served.request)
    /\ LET frame == SubSeq(served.request, 1, Len(served.request) - 2)
       IN  /\ SubSeq(served.request, Len(served.request) - 1, Len(served.request))
                = PackH(calculate_crc(frame))
           /\ rtu_process_request(WithCrc(frame), served.before).slaves
                # served.before
    /\ served.none
    /\ slaves = served.before

\* the frame execute has decoded is one the claim is about: its first byte
\* is not the slave called, or its last two bytes are not its CRC, or its
\* function code has bit 0x80 set
RtuBadFrame ==
    /\ rtu.pc = "done"
    /\ Len(rtu.response) >= 5
    /\ \/ rtu.response[1] # rtu.call.slave
       \/ ~TailIsCrc(rtu.response)
       \/ HasBit80(rtu.response[2])

\* C28: when the frame RtuMaster.execute received has a first byte other
\* than the slave called, a CRC that does not verify, or a function code
\* with bit 0x80 set, execute does not return normally, and it returns no
\* value decoded from that frame.
C28_BadFrameFails ==
    RtuBadFrame => (rtu.result.kind # "ok" /\ rtu.result.values = <<>>)

\* the last part of C28 alone: no value decoded from such a frame is
\* returned
C28_NoValuesFromBadFrame ==
    RtuBadFrame => rtu.result.values = <<>>

\* C29: the silence the RTU master and the RTU server wait for after a
\* frame is 3.5 * 11 / baud seconds up to 19200 baud and 1750 microseconds
\* above, and the gap waited for a further character above 19200 baud is
\* 750 microseconds.
C29_SilenceTimes ==
    (calc.f = "_calculate_t0" /\ calc.done) =>
        LET baudrate == calc.args[1]
        IN  IF baudrate <= 19200
            THEN SameDuration(calc.value.frame_silence,
                              Millis(35 * 11 * 100, baudrate))
            ELSE /\ SameDuration(calc.value.frame_silence, Millis(1750, 1000))
                 /\ SameDuration(calc.value.character_gap, Millis(750, 1000))

\* the part of C29 up to 19200 baud alone
C29_SilenceUpTo19200 ==
    (calc.f = "_calculate_t0" /\ calc.done /\ calc.args[1] <= 19200) =>
        SameDuration(calc.value.frame_silence,
                     Millis(35 * 11 * 100, calc.args[1]))

\* what the code waits above 19200 baud: 3.5 and 1.5 times 1750 microseconds
C29_SilenceAbove19200 ==
    (calc.f = "_calculate_t0" /\ calc.done /\ calc.args[1] > 19200) =>
        /\ SameDuration(calc.value.frame_silence, Millis(6125, 1000))
        /\ SameDuration(calc.value.character_gap, Millis(2625, 1000))

\* the handler of connection c takes a whole frame from its socket in this
\* step and _process_request returns no response for it
DropsFrame(c) ==
    /\ ~conn[c].peerClosed
    /\ FirstFrame(conn[c].out) # <<>>
    /\ process_request(FirstFrame(conn[c].out), slaves).none
    /\ conn'[c].out = SliceFrom(conn[c].out, Len(FirstFrame(conn[c].out)))
    /\ conn'[c].inb = conn[c].inb

\* C30: when the dispatcher returns no response for the frame a client
\* handler has received (protocol id other than 0, or fewer than 8 bytes),
\* the handler ends and its connection is closed, so that no further
\* request is read from it.
C30_DroppedFrameEndsHandler ==
    [][\A c \in 1..Len(conn) : DropsFrame(c) => conn'[c].peerClosed]_vars

\* the first two parts of C30: a handler ends only when no whole request is
\* waiting on its socket (recv returned nothing or timed out), and from
\* then on nothing is read from or sent on its connection
C30_EndedHandlerStaysEnded ==
    [][\A c \in 1..Len(conn) :
        /\ (~conn[c].peerClosed /\ conn'[c].peerClosed) =>
                FirstFrame(conn[c].out) = <<>>
        /\ conn[c].peerClosed =>
                (conn'[c].peerClosed /\ conn'[c].inb = conn[c].inb)]_vars

\* the handler of connection c takes a whole frame from its socket in this
\* step
TakesFrame(c) ==
    /\ ~conn[c].peerClosed
    /\ FirstFrame(conn[c].out) # <<>>
    /\ conn'[c].out = SliceFrom(conn[c].out, Len(FirstFrame(conn[c].out)))

\* what this step sends to the client of connection c
SentNow(c) == SliceFrom(conn'[c].inb, Len(conn[c].inb))

\* C31: in the turn of its loop in which a client handler takes a request
\* that parses, it sends exactly one response frame on that connection (to
\* a client that is still connected), after the responses sent before; the
\* response carries the request's transaction id and unit id, and a fault
\* raised inside a function handler is answered with SLAVE_DEVICE_FAILURE.
C31_OneResponsePerRequest ==
    [][\A c \in 1..Len(conn) :
        LET request == FirstFrame(conn[c].out)
            frame == parse_frame(request)
            answer == parse_frame(SentNow(c))
        IN  (TakesFrame(c) /\ frame.ok /\ conn[c].masterOpen) =>
                /\ Slice(conn'[c].inb, 0, Len(conn[c].inb)) = conn[c].inb
                /\ SentNow(c) # <<>>
                /\ FirstFrame(SentNow(c)) = SentNow(c)
                /\ answer.ok
                /\ answer.transaction_id = frame.transaction_id
                /\ answer.unit_id = frame.unit_id
                /\ (/\ frame.unit_id \in DOMAIN slaves
                    /\ Dispatch(frame, slaves[frame.unit_id]).raised) =>
                        /\ answer.function_code = OrBit80(frame.function_code)
                        /\ answer.data = <<SLAVE_DEVICE_FAILURE>>]_vars

\* a client has received the SLAVE_DEVICE_FAILURE answer to the read of 128
\* registers and, after it, the answer to a read of two registers
C31_Witness ==
    \E c \in 1..Len(conn) :
        conn[c].inb =
            Mbap(6, 0, 3, 1, <<OrBit80(READ_HOLDING_REGISTERS), SLAVE_DEVICE_FAILURE>>)
            \o Mbap(1, 0, 7, 1, <<READ_HOLDING_REGISTERS, 4, 0, 11, 0, 22>>)

\* the length of the frame that starts a stream: the 7 header bytes and the
\* length - 1 bytes after them (none when the length field is 0 or 1)
FrameLength(stream) == MBAP_HEADER_LENGTH + Max(UnpackH(stream, 4) - 1, 0)

RECURSIVE SplitFrames(_)
\* the whole frames of a stream, each starting at the first byte after the
\* one before
SplitFrames(stream) ==
    IF Len(stream) < MBAP_HEADER_LENGTH THEN <<>>
    ELSE IF Len(stream) < FrameLength(stream) THEN <<>>
    ELSE <<Slice(stream, 0, FrameLength(stream))>>
         \o SplitFrames(SliceFrom(stream, FrameLength(stream)))

RECURSIVE Joined(_)
Joined(frames) ==
    IF frames = <<>> THEN <<>> ELSE Head(frames) \o Joined(Tail(frames))

\* the bytes received for the frame that is being read (the master's data
\* starts as a copy of the header)
Partial(r) == IF r.who = "master" /\ r.data # <<>> THEN r.data ELSE r.header \o r.data

\* C32: whatever the chunks recv returns, the frames a receive loop (the
\* server handler's and the master's) has extracted are the first frames of
\* the stream cut at 7 + (length - 1) bytes each, every byte received
\* belongs to them or to the frame being read, in stream order, and when the
\* stream ends every whole frame of it has been extracted.
C32_FramesIndependentOfChunks ==
    reader.who \in {"handler", "master"} =>
        LET expected == SplitFrames(reader.whole)
            n == Len(reader.frames)
        IN  /\ n <= Len(expected)
            /\ \A i \in 1..n : reader.frames[i] = expected[i]
            /\ reader.whole = Joined(reader.frames) \o Partial(reader) \o reader.stream
            /\ reader.pc = "ended" => n = Len(expected)

\* two back-to-back frames, the second with a one-byte PDU, have been
\* extracted from a stream that was received one or two bytes at a time
C32_Witness ==
    /\ reader.whole = Mbap(1, 0, 6, 1, <<READ_HOLDING_REGISTERS, 0, 2, 0, 2>>)
                      \o Mbap(2, 0, 2, 1, <<7>>) \o <<0>>
    /\ reader.pc = "ended"
    /\ Len(reader.frames) = 2
    /\ reader.recvs >= 10

\* the accept loops that are waiting in accept on the server's listening
\* socket
Accepting ==
    {i \in 1..Len(srv.loops) :
        srv.sock # 0 /\ srv.loops[i].pc = "accept" /\ srv.loops[i].on = srv.sock}

\* C34: at any time at most one accept loop of the server is running and
\* accepting on its listening socket, whatever start and stop calls were
\* made, start right after stop included.
C34_OneAcceptLoop == Cardinality(Accepting) <= 1

\* as long as start is called once only, one accept loop at most exists
C34_OneLoopPerStart == srv.starts <= 1 => Len(srv.loops) <= 1

\* every accept loop and every client handler has exited and every client
\* socket is closed
AllExited ==
    /\ \A i \in 1..Len(srv.loops) : srv.loops[i].pc = "done"
    /\ \A h \in 1..Len(srv.handlers) :
        srv.handlers[h].pc = "done" /\ conn[h].peerClosed

\* while the server is stopped, the requests each handler has dispatched
\* since the flag was cleared: none for a connection accepted after that,
\* one at most for the others
ServedAfterStop ==
    srv.stopped =>
        \A h \in 1..Len(srv.handlers) :
            /\ srv.handlers[h].late => srv.handlers[h].after = 0
            /\ srv.handlers[h].after <= 1

\* C33: after stop has been called, and as long as start is not called
\* again, no connection accepted after the flag was cleared has a request
\* dispatched and every handler that was running dispatches one more
\* request at most; if start is never called again the accept loop and
\* every handler eventually exit and the client sockets are closed.
C33_StopEndsService ==
    /\ []ServedAfterStop
    /\ srv.stopped ~> (AllExited \/ ~srv.stopped)

\* the server is stopped for good: a handler that was running has
\* dispatched one more request and has exited, a connection accepted after
\* the flag was cleared has been closed without a request dispatched
C33_Witness ==
    /\ srv.stopped
    /\ AllExited
    /\ \E h \in 1..Len(srv.handlers) :
        ~srv.handlers[h].late /\ srv.handlers[h].after = 1
    /\ \E h \in 1..Len(srv.handlers) :
        srv.handlers[h].late /\ srv.handlers[h].after = 0

\* ------------------------------------------------------------------------
\* C35: the master's connection across calls
\* ------------------------------------------------------------------------
\* no execute is in progress
BetweenCalls == \A t \in Threads : thr[t].pc = "idle"

\* the last execute of the caller ended with a response received (normal,
\* exception or one it could not decode)
Answered == thr[1].pc = "idle" /\ thr[1].result.frame # <<>>

\* the caller is in an execute, before the first sendall of that call returned
BeforeFirstSend ==
    /\ thr[1].pc \in {"get_tid", "store_tid", "return_tid", "open", "send"}
    /\ thr[1].attempt = 0

\* C35: a TcpMaster holds no connection until its first execute; after an
\* execute that received a response the master still holds that connection,
\* open, and up to and including the first sendall of the next execute the
\* master keeps the same socket and connects no other one, the request going
\* out on it; between calls _is_opened is true exactly when the master holds
\* a socket.
C35_ConnectionKept ==
    [][/\ calls = 0 => (sock = 0 /\ ~is_opened /\ conn = <<>>)
       /\ BetweenCalls => (is_opened <=> sock # 0)
       /\ Answered => (is_opened /\ sock # 0 /\ conn[sock].masterOpen)
       /\ (is_opened /\ sock # 0 /\ (BetweenCalls \/ BeforeFirstSend)) =>
            /\ sock' = sock
            /\ is_opened'
            /\ Len(conn') = Len(conn)
            /\ conn'[sock].masterOpen
            /\ (thr[1].pc = "send" /\ thr'[1].pc = "recv_header") =>
                /\ conn'[sock].out = conn[sock].out \o thr[1].request
                /\ thr'[1].sent = <<[on |-> sock, tid |-> UnpackH(thr[1].request, 0)]>>
      ]_vars

\* the second execute has sent its request on the first connection, the only
\* one ever made, while the server has already applied the first call's write
C35_Witness ==
    /\ calls = 2
    /\ slaves # InitSlaves
    /\ Len(conn) = 1
    /\ conn[1].masterOpen
    /\ sock = 1
    /\ thr[1].pc = "recv_header"
    /\ thr[1].attempt = 0
    /\ thr[1].sent = <<[on |-> 1, tid |-> 2]>>
    /\ conn[1].out = thr[1].request

\* ------------------------------------------------------------------------
\* C38: open() and the master's lock
\* ------------------------------------------------------------------------
\* thread t is inside open(), holding the lock, in a close() that waits for
\* that same lock; no step of any thread releases it
SelfBlocked(t) == thr[t].pc = "blocked" /\ lock = t

\* C38: open() always returns or raises; no caller is ever left inside open()
\* waiting for the master's lock while holding it itself.
C38_OpenNeverBlocks == \A t \in Threads : ~SelfBlocked(t)

\* ------------------------------------------------------------------------
\* C36: the RTU server and the TCP server on the same request
\* ------------------------------------------------------------------------
\* what TcpServer._process_request does, from the data model the RTU server
\* started from, with the function code and body of the frame the RTU server
\* dispatched last
TcpOnServedRtu ==
    process_request(Mbap(0, 0, Len(served.request) - 2, served.request[1],
                         SubSeq(served.request, 2, Len(served.request) - 2)),
                    served.before)

\* C36: for a valid-CRC request addressed to a registered slave, the RTU
\* server answers with the response PDU (function code and body) the TCP
\* server gives to the same function code and body from the same data model,
\* or both give none, and both leave the same data model.
C36_ServersAgree ==
    ServedRtu(0) =>
        /\ served.none = TcpOnServedRtu.none
        /\ (~served.none) =>
            SubSeq(served.resp, 2, Len(served.resp) - 2)
                = SliceFrom(TcpOnServedRtu.resp, MBAP_HEADER_LENGTH)
        /\ slaves = TcpOnServedRtu.slaves

\* ------------------------------------------------------------------------
\* C37, C39: what a write request stores and what it is answered with
\* ------------------------------------------------------------------------
WriteCodes ==
    {WRITE_SINGLE_COIL, WRITE_SINGLE_REGISTER, WRITE_MULTIPLE_COILS,
     WRITE_MULTIPLE_REGISTERS}

\* unit id, function code and body of the request dispatched last, on either
\* transport
ServedPdu ==
    IF served.transport = "tcp"
    THEN [unit |-> ServedFrame.unit_id, fc |-> ServedFrame.function_code,
          data |-> ServedFrame.data]
    ELSE [unit |-> served.request[1], fc |-> served.request[2], data |-> ServedRtuData]

\* the response carrying the PDU on the transport of the request dispatched
\* last
Framed(pdu) ==
    IF served.transport = "tcp"
    THEN Mbap(ServedFrame.transaction_id, 0, 1 + Len(pdu), ServedPdu.unit, pdu)
    ELSE WithCrc(<<ServedPdu.unit>> \o pdu)

\* the request has the shape of its function: address and value, the value
\* of a coil 0x0000 or 0xFF00; or address, quantity within the limits, the
\* byte count of that quantity and as many bytes
WellFormedWrite(fc, data) ==
    IF fc \in {WRITE_SINGLE_COIL, WRITE_SINGLE_REGISTER}
    THEN /\ Len(data) = 4
         /\ fc = WRITE_SINGLE_COIL => UnpackH(data, 2) \in {0, 65280}
    ELSE /\ Len(data) >= 5
         /\ UnpackH(data, 2) >= 1
         /\ UnpackH(data, 2) <= (IF fc = WRITE_MULTIPLE_COILS THEN 1968 ELSE 123)
         /\ data[5] = (IF fc = WRITE_MULTIPLE_COILS THEN (UnpackH(data, 2) + 7) \div 8
                       ELSE 2 * UnpackH(data, 2))
         /\ Len(data) = 5 + data[5]

\* the last request dispatched is a well-formed write for a registered slave
ServedWrite ==
    /\ ServedTcp(0) \/ ServedRtu(0)
    /\ ServedPdu.fc \in WriteCodes
    /\ WellFormedWrite(ServedPdu.fc, ServedPdu.data)

\* the kind of block a write function code writes
WriteKind(fc) ==
    IF fc \in {WRITE_SINGLE_COIL, WRITE_MULTIPLE_COILS} THEN COILS ELSE HOLDING_REGISTERS

\* the values a well-formed write request carries, as the blocks hold them
WriteValues(fc, data) ==
    IF fc = WRITE_SINGLE_COIL THEN <<UnpackH(data, 2) = 65280>>
    ELSE IF fc = WRITE_SINGLE_REGISTER THEN <<UnpackH(data, 2)>>
    ELSE IF fc = WRITE_MULTIPLE_COILS
    THEN [i \in 1..UnpackH(data, 2) |-> BitOf(data[6 + (i - 1) \div 8], (i - 1) % 8)]
    ELSE [i \in 1..UnpackH(data, 2) |-> UnpackH(data, 5 + 2 * (i - 1))]

\* the echo a write request is answered with: address and value, or address
\* and requested quantity
WriteEcho(fc, data) == <<fc>> \o SubSeq(data, 1, 4)

\* address a lies inside the block and the block is of the kind
InsideBlock(block, kind, a) ==
    /\ block.block_type = kind
    /\ block.starting_address <= a
    /\ a < block.starting_address + block.size

\* the blocks of the kind, of the slave the request is for, that held the
\* start address before the request
StartBlocks ==
    {j \in 1..Len(served.before[ServedPdu.unit]) :
        InsideBlock(served.before[ServedPdu.unit][j], WriteKind(ServedPdu.fc),
                    UnpackH(ServedPdu.data, 0))}

\* the data model after the values were stored from the address on in block
\* j of the slave, as far as they fall inside it, and nowhere else
StoredInside(before, unit, j, address, values) ==
    [u \in DOMAIN before |->
        [m \in 1..Len(before[u]) |->
            [before[u][m] EXCEPT !.data =
                [k \in 1..before[u][m].size |->
                    LET i == before[u][m].starting_address + (k - 1) - address
                    IN  IF u = unit /\ m = j /\ 0 <= i /\ i < Len(values)
                        THEN values[i + 1]
                        ELSE before[u][m].data[k]]]]]

\* C37: a well-formed write request for a registered slave whose start
\* address lies inside a block of the target kind stores, in the first such
\* block, exactly the values whose addresses fall inside that block, and
\* leaves every other element, block and slave unchanged; it is answered
\* with the echo of address and value (FC 05/06) or of address and requested
\* quantity (FC 0F/10), also when part of the range fell outside the block.
C37_WriteStoresInsideBlock ==
    (ServedWrite /\ StartBlocks # {}) =>
        /\ ~served.none
        /\ served.resp = Framed(WriteEcho(ServedPdu.fc, ServedPdu.data))
        /\ slaves = StoredInside(served.before, ServedPdu.unit,
                                 CHOOSE j \in StartBlocks : \A m \in StartBlocks : j <= m,
                                 UnpackH(ServedPdu.data, 0),
                                 WriteValues(ServedPdu.fc, ServedPdu.data))

\* slave 3 was sent three registers for addresses 4 to 6 and holds registers
\* 3 to 5: two were stored, the answer reports three, slave 1 is unchanged
C37_Witness ==
    /\ ServedWrite
    /\ served.transport = "tcp"
    /\ ServedPdu.unit = 3
    /\ ServedPdu.fc = WRITE_MULTIPLE_REGISTERS
    /\ ServedPdu.data = <<0, 4, 0, 3, 6, 255, 255, 0, 6, 0, 7>>
    /\ served.before[3][2].data = <<44, 55, 66>>
    /\ slaves[3][2].data = <<44, 65535, 6>>
    /\ slaves[1] = served.before[1]
    /\ SliceFrom(served.resp, MBAP_HEADER_LENGTH) = <<WRITE_MULTIPLE_REGISTERS, 0, 4, 0, 3>>

\* C39: a well-formed write request for a registered slave whose start
\* address no block of the target kind covers is answered with the normal
\* echo and changes nothing, also when later addresses of its range lie
\* inside a block of the kind.
C39_UncoveredStartWritesNothing ==
    (ServedWrite /\ StartBlocks = {}) =>
        /\ ~served.none
        /\ served.resp = Framed(WriteEcho(ServedPdu.fc, ServedPdu.data))
        /\ slaves = served.before

\* slave 3 was sent two registers for addresses 2 and 3; its block starts at
\* 3, whose register differs from the value sent for it
C39_Witness ==
    /\ ServedWrite
    /\ StartBlocks = {}
    /\ ServedPdu.unit = 3
    /\ ServedPdu.fc = WRITE_MULTIPLE_REGISTERS
    /\ ServedPdu.data = <<0, 2, 0, 2, 4, 0, 7, 255, 255>>
    /\ InsideBlock(slaves[3][2], HOLDING_REGISTERS, 3)
    /\ slaves[3][2].data[1] = 44
    /\ ~served.none

\* ------------------------------------------------------------------------
\* C40: a request that is rejected or dropped leaves the data model alone
\* ------------------------------------------------------------------------
\* the response of the TCP server to the request dispatched last is an
\* exception response: its function code has bit 0x80 set
ServedTcpRejected ==
    /\ served.transport = "tcp"
    /\ ~served.none
    /\ Len(served.resp) > MBAP_HEADER_LENGTH
    /\ HasBit80(served.resp[MBAP_HEADER_LENGTH + 1])

\* C40: whenever TcpServer._process_request returns an exception response or
\* no response, the data model of every slave is as it was before the
\* request.
C40_RejectedChangesNothing ==
    (served.transport = "tcp" /\ (served.none \/ ServedTcpRejected)) =>
        slaves = served.before

\* a Write Single Coil with value 0x1234 for coil 1 of slave 1, which is
\* false, was answered with an exception after earlier writes had changed
\* the data model; the coil is still false
C40_Witness ==
    /\ ServedTcpRejected
    /\ ServedFrame.unit_id = 1
    /\ ServedFrame.function_code = WRITE_SINGLE_COIL
    /\ ServedFrame.data = <<0, 1, 18, 52>>
    /\ served.before # InitSlaves
    /\ ~slaves[1][1].data[2]
    /\ slaves = served.before

====
